---- MODULE Spec2Model ----
(***************************************************************************)
(* State-machine model of the clinical-trials extraction pipeline:         *)
(*   - the MongoDB storage layer (storage/mongodb_storage.py),             *)
(*   - the per-document pipeline and the batch orchestrator                *)
(*     (main.py, utils/batch_utils.py, processors/storage_manager.py),     *)
(*   - the cleaning stage (processors/cleaner.py).                         *)
(*                                                                         *)
(*   - the normalisation, validation and extraction functions              *)
(*     (utils/date_utils.py, processors/normalizer.py,                     *)
(*     processors/validator.py, utils/html_utils.py, extractors/).         *)
(*                                                                         *)
(* Four specifications share the variables:                                *)
(*   Spec       the batch run: documents processed by a process pool;      *)
(*   SpecStore  writers calling save_trial_data on the shared collection;  *)
(*   SpecClean  clean_and_standardize applied to bounded record trees;     *)
(*   SpecPure   one call of a library function on a bounded input.         *)
(***************************************************************************)
EXTENDS Integers, Sequences, FiniteSets, TLC

VARIABLES
    \* ---- storage layer (shared collection and its clients) ----
    coll,         \* the collection: sequence of stored documents, in insertion order
    uniqueIndex,  \* TRUE when the unique index on header.euct_number exists
    clock,        \* datetime.utcnow(): value of the next reading
    sconn,        \* per client: MongoDBStorage._connected ("none", "connected", "failed")
    spc,          \* per client: position inside save_trial_data
    tdata,        \* per client: the trial_data dict handed to save_trial_data
    sret,         \* per client: return value of save_trial_data
    sinfo,        \* per client: what preceded the call and what it wrote
    bulk,         \* per client: the locals of its bulk_insert_trials call
    \* ---- batch run (process_batch and the per-document pipeline) ----
    run,              \* the environment and the command line of the run
    enable_storage,   \* MONGODB_SETTINGS["enable_storage"] as the tasks read it
    pc,               \* per document: position of its task
    trace,            \* per document: the pipeline stages completed, in order
    wrote,            \* per document: TRUE once its record was written to the store
    report,           \* per document: the validation report
    storage_results,  \* per document: what store_trial_data reported
    future,           \* per document: the future of its task
    results,          \* the list process_batch builds
    batch,            \* "running" until process_batch has returned
    progress,         \* the ProgressLogger object of process_batch
    progress_log,     \* the lines the ProgressLogger objects have logged
    \* ---- cleaning stage ----
    cin,              \* the extracted record handed to clean_and_standardize
    cout,             \* the successive results of clean_and_standardize
    fcall,            \* the library function being called, "none" before a call
    farg,             \* the argument of that call
    fret              \* what the call returned

storeVars == <<coll, uniqueIndex, clock, sconn, spc, tdata, sret, sinfo, bulk>>

batchVars == <<run, enable_storage, pc, trace, wrote, report, storage_results,
               future, results, batch, progress, progress_log>>

cleanVars == <<cin, cout>>
pureVars == <<fcall, farg, fret>>

vars == <<coll, uniqueIndex, clock, sconn, spc, tdata, sret, sinfo, bulk,
          run, enable_storage, pc, trace, wrote, report, storage_results,
          future, results, batch, progress, progress_log,
          cin, cout, fcall, farg, fret>>

(***************************************************************************)
(* Bounds                                                                  *)
(***************************************************************************)
NWriters == 2     \* writers (one save_trial_data call each) in SpecStore
NDocs == 2        \* documents handed to process_batch in Spec
MaxWorkers == 2   \* BATCH_PROCESSING["max_workers"] (os.cpu_count())

Writers == 1..NWriters

(***************************************************************************)
(* Trial records, as far as the storage layer looks into them: a mapping   *)
(* from top-level branch names to branch values.  The header branch is a   *)
(* mapping with the field euct_number; "Absent" marks a field that is not  *)
(* in the mapping.                                                         *)
(***************************************************************************)
Absent == "Absent"
Keys == {"K1", "K2"}
Branches == {"header", "trial_results"}
HeaderVals == [euct_number : Keys \cup {Absent}]
ResultVals == [summary : {"v1", "v2"}]

\* the record with the given branches: header h when hp, trial_results t when tp
MkRecord(hp, h, tp, t) ==
    [ b \in {x \in Branches : (x = "header" /\ hp) \/ (x = "trial_results" /\ tp)} |->
        IF b = "header" THEN h ELSE t ]

\* the records offered to the storage layer: a header branch (with or without
\* the identifier) and an optional trial_results branch
Records ==
    { MkRecord(TRUE, h, tp, t) : h \in HeaderVals, tp \in BOOLEAN, t \in ResultVals }

\* trial_data.get("header", {}).get("euct_number"); Absent stands for None
EuctNumber(rec) ==
    IF "header" \in DOMAIN rec THEN rec["header"].euct_number ELSE Absent

\* value of the indexed path header.euct_number in a stored document
\* (a document without the field is indexed under null, here Absent)
DocKey(doc) == EuctNumber(doc.body)

\* positions of the stored documents whose header.euct_number equals k
Matching(c, k) == { i \in 1..Len(c) : DocKey(c[i]) = k }

\* the first stored document matching the filter (update_one touches one)
FirstMatch(c, k) == CHOOSE i \in Matching(c, k) : \A j \in Matching(c, k) : i <= j

(***************************************************************************)
(* save_trial_data: the document built for insert_one                      *)
(***************************************************************************)
NewDocument(rec, src, now) ==
    [ body |-> rec,
      meta |-> [ created_at  |-> now,
                 updated_at  |-> now + 1,
                 source_file |-> src,
                 version     |-> "1.0" ] ]

\* insert_one raises DuplicateKeyError: the unique index exists and a stored
\* document already carries the same value of header.euct_number
DuplicateKey(c, idx, rec) == idx /\ Matching(c, EuctNumber(rec)) # {}

\* variant of SetFields: the stored document is replaced by trial_data as it
\* is, its dotted keys becoming top-level keys of the stored content
SetFields_ReplaceDocument(body, rec) ==
    [ b \in DOMAIN rec \cup {"metadata.updated_at"} |->
        IF b \in DOMAIN rec THEN rec[b] ELSE "now" ]

\* {"$set": trial_data}: every top-level key of trial_data replaces the stored
\* value of that key; stored keys that trial_data lacks are left alone
SetFields(body, rec) ==
    [ b \in DOMAIN body \cup DOMAIN rec |->
        IF b \in DOMAIN rec THEN rec[b] ELSE body[b] ]

\* the dotted keys "metadata.updated_at" and "metadata.source_file" of the
\* $set document address fields inside the stored metadata mapping
SetMetadata(meta, src, now) ==
    [ meta EXCEPT !.updated_at = now, !.source_file = src ]

\* update_one(filter, {"$set": trial_data}, upsert=True) on the collection
UpdateOneResult(c, rec, src, now) ==
    LET k == EuctNumber(rec) IN
    IF Matching(c, k) # {}
    THEN LET i == FirstMatch(c, k) IN
         [ c EXCEPT ![i] = [ body |-> SetFields(c[i].body, rec),
                             meta |-> SetMetadata(c[i].meta, src, now) ] ]
    ELSE Append(c, [ body |-> rec,
                     meta |-> [ created_at  |-> 0,
                                updated_at  |-> now,
                                source_file |-> src,
                                version     |-> Absent ] ])


\* records whose unique-index value occurs more than once: building the unique
\* index on such a collection fails
HasDuplicates(c) ==
    \E i, j \in 1..Len(c) : i # j /\ DocKey(c[i]) = DocKey(c[j])

(***************************************************************************)
(* Storage actions.  A client is whoever owns a MongoDBStorage object: a   *)
(* writer in SpecStore, the DataStorage of one document in Spec.           *)
(***************************************************************************)
Clients == DOMAIN spc

\* connect(): the ping succeeds; _create_indexes either builds the unique
\* index or fails, and a failure is logged and swallowed
ConnectOk(c) ==
    /\ sconn[c] = "none"
    /\ \E built \in BOOLEAN :
          uniqueIndex' = (uniqueIndex \/ (built /\ ~HasDuplicates(coll)))
    /\ sconn' = [sconn EXCEPT ![c] = "connected"]
    /\ UNCHANGED <<coll, clock, spc, tdata, sret, sinfo>>

\* connect(): ConnectionFailure or any other exception; returns False
ConnectFail(c) ==
    /\ sconn[c] = "none"
    /\ sconn' = [sconn EXCEPT ![c] = "failed"]
    /\ UNCHANGED <<coll, uniqueIndex, clock, spc, tdata, sret, sinfo>>

\* the call has returned: record its result
Returned(c, ret, path, at) ==
    /\ spc' = [spc EXCEPT ![c] = "done"]
    /\ sret' = [sret EXCEPT ![c] = ret]
    /\ sinfo' = [sinfo EXCEPT ![c].path = path, ![c].at = at]

\* save_trial_data is entered with trial_data = rec; without an active
\* connection it returns False at once
BeginSave(c, rec, src) ==
    /\ spc[c] = "idle"
    /\ tdata' = [tdata EXCEPT ![c] = [rec |-> rec, src |-> src, dotted |-> FALSE]]
    /\ sinfo' = [sinfo EXCEPT ![c].prior =
                    { e \in Clients : spc[e] = "done" /\ sret[e]
                                      /\ EuctNumber(tdata[e].rec) = EuctNumber(rec) }]
    /\ IF sconn[c] = "connected"
       THEN /\ spc' = [spc EXCEPT ![c] = "insert"]
            /\ UNCHANGED sret
       ELSE /\ spc' = [spc EXCEPT ![c] = "done"]
            /\ sret' = [sret EXCEPT ![c] = FALSE]
    /\ UNCHANGED <<coll, uniqueIndex, clock, sconn>>

\* insert_one(document): inserted, or DuplicateKeyError
InsertOne(c) ==
    /\ spc[c] = "insert"
    /\ clock' = clock + 2
    /\ IF DuplicateKey(coll, uniqueIndex, tdata[c].rec)
       THEN /\ spc' = [spc EXCEPT ![c] = "update"]
            /\ UNCHANGED <<coll, sret, sinfo>>
       ELSE /\ coll' = Append(coll, NewDocument(tdata[c].rec, tdata[c].src, clock))
            /\ Returned(c, TRUE, "insert", clock)
    /\ UNCHANGED <<uniqueIndex, sconn, tdata>>

\* insert_one raises another PyMongoError (network error, timeout)
InsertError(c) ==
    /\ spc[c] = "insert"
    /\ clock' = clock + 2
    /\ Returned(c, FALSE, "none", 0)
    /\ UNCHANGED <<coll, uniqueIndex, sconn, tdata>>

\* _update_trial_data: no identifier in the record, return False
UpdateNoKey(c) ==
    /\ spc[c] = "update"
    /\ EuctNumber(tdata[c].rec) = Absent
    /\ Returned(c, FALSE, "none", 0)
    /\ UNCHANGED <<coll, uniqueIndex, clock, sconn, tdata>>

\* _update_trial_data: the dotted metadata keys are written into trial_data
\* itself, then update_one applies the $set
UpdateOne(c) ==
    /\ spc[c] = "update"
    /\ EuctNumber(tdata[c].rec) # Absent
    /\ tdata' = [tdata EXCEPT ![c].dotted = TRUE]
    /\ clock' = clock + 1
    /\ coll' = UpdateOneResult(coll, tdata[c].rec, tdata[c].src, clock)
    /\ Returned(c, TRUE, "update", clock)
    /\ UNCHANGED <<uniqueIndex, sconn>>

\* _update_trial_data: update_one raises a PyMongoError
UpdateError(c) ==
    /\ spc[c] = "update"
    /\ EuctNumber(tdata[c].rec) # Absent
    /\ tdata' = [tdata EXCEPT ![c].dotted = TRUE]
    /\ clock' = clock + 1
    /\ Returned(c, FALSE, "none", 0)
    /\ UNCHANGED <<coll, uniqueIndex, sconn>>

(***************************************************************************)
(* SpecStore: writers saving records to the shared collection              *)
(***************************************************************************)
SourceOf(w) == IF w = 1 THEN "f1" ELSE "f2"

NoRecord == [rec |-> <<>>, src |-> Absent, dotted |-> FALSE]
NoInfo == [prior |-> {}, path |-> "none", at |-> 0]
NoBulk == [is_connected |-> FALSE, trials_data |-> <<>>,
           documents |-> <<>>, nInserted |-> 0,
           writeErrors |-> <<>>, results |-> <<>>]

InitStorage(cs) ==
    /\ coll = <<>>
    /\ uniqueIndex = FALSE
    /\ clock = 1
    /\ sconn = [c \in cs |-> "none"]
    /\ spc = [c \in cs |-> "idle"]
    /\ tdata = [c \in cs |-> NoRecord]
    /\ sret = [c \in cs |-> FALSE]
    /\ sinfo = [c \in cs |-> NoInfo]
    /\ bulk = [c \in cs |-> NoBulk]

\* the batch variables while no batch is run
IdleBatch ==
    /\ run = <<>>
    /\ enable_storage = TRUE
    /\ pc = <<>> /\ trace = <<>> /\ wrote = <<>>
    /\ report = <<>> /\ storage_results = <<>>
    /\ future = <<>> /\ results = <<>>
    /\ batch = "none"
    /\ progress = <<>> /\ progress_log = <<>>

\* the cleaning variables while no record is being cleaned
IdleCleaner == cin = <<>> /\ cout = <<>>
IdlePure == fcall = "none" /\ farg = <<>> /\ fret = <<>>

InitStore == InitStorage(Writers) /\ IdleBatch /\ IdleCleaner /\ IdlePure

WriterSave(w) == \E rec \in Records : BeginSave(w, rec, SourceOf(w))

NextStore ==
    /\ UNCHANGED <<batchVars, cleanVars, pureVars, bulk>>
    /\ \E w \in Writers :
        \/ ConnectOk(w)
        \/ ConnectFail(w)
        \/ WriterSave(w)
        \/ InsertOne(w)
        \/ InsertError(w)
        \/ UpdateNoKey(w)
        \/ UpdateOne(w)
        \/ UpdateError(w)

SpecStore == InitStore /\ [][NextStore]_vars


(***************************************************************************)
(* Spec: process_batch fans the documents out over a process pool; each    *)
(* task runs process_file_wrapper -> process_file -> process_data.  The    *)
(* workers share nothing but the database, which is the environment of     *)
(* this specification: what save_trial_data can return is taken from the   *)
(* storage model above (SaveOutcomes).                                     *)
(***************************************************************************)
Docs == 1..NDocs

Min(a, b) == IF a < b THEN a ELSE b

\* max_workers = min(BATCH_PROCESSING['max_workers'], len(files))
max_workers == Min(MaxWorkers, NDocs)

\* stages of a task during which a worker process is executing it
RunningStages ==
    {"load", "extract", "clean", "normalize", "storage", "validate", "export"}

\* stages of process_file from which an exception reaches its except clause
\* (process_data catches whatever the storage step raises)
TryStages == {"load", "extract", "clean", "normalize", "validate", "export"}

\* validate_and_report: (valid, issues)
Reports ==
    { [valid |-> TRUE, issues |-> <<>>],
      [valid |-> FALSE, issues |-> <<"Section requise manquante">>] }

\* str(e) of the exception raised in a stage
ErrorText(stage) ==
    IF stage = "load" THEN "No such file or directory" ELSE "error in " \o stage

BrokenProcessPool ==
    "A process in the process pool was terminated abruptly"

\* process_file, except clause: {"file", "success": False, "error": str(e)}
FailureResult(file, err) ==
    [file |-> file, success |-> FALSE, error |-> err]

\* the dict export_data returns, one entry per requested format (the pipeline
\* hands it on without looking into it)
ExportResults == [json |-> TRUE]

\* process_file, normal return
SuccessResult(file, rep, export_results) ==
    [file |-> file, success |-> TRUE, output_dir |-> "out",
     valid |-> rep.valid, issues |-> rep.issues,
     export_results |-> export_results]

\* variant of WrapResult: the wrapper's own keys are written after **result
WrapResult_OwnKeysLast(file, result) ==
    LET base == [file |-> file, success |-> TRUE, output_dir |-> "out"] IN
    [ k \in DOMAIN base \cup DOMAIN result |->
        IF k \in DOMAIN base THEN base[k] ELSE result[k] ]

\* process_file_wrapper: {"file": file, "success": True, "output_dir": ..., **result}
\* (the keys of result override the ones written before it)
WrapResult(file, result) ==
    LET base == [file |-> file, success |-> TRUE, output_dir |-> "out"] IN
    [ k \in DOMAIN base \cup DOMAIN result |->
        IF k \in DOMAIN result THEN result[k] ELSE base[k] ]

\* process_batch, except clause around future.result()
ExceptionResult(file, err) ==
    [file |-> file, success |-> FALSE, error |-> err]

\* store_trial_data's storage_results["mongodb"]
StorageResults(enabled, success, error) ==
    [enabled |-> enabled, success |-> success, error |-> error]

\* what a call of save_trial_data on a connected store can do: its return
\* value and whether it wrote to the collection (see InsertOne, InsertError,
\* UpdateNoKey, UpdateOne, UpdateError)
SaveOutcomes ==
    { [ret |-> TRUE,  wrote |-> TRUE],
      [ret |-> FALSE, wrote |-> FALSE] }

NoFuture == [state |-> "pending", value |-> <<>>]

\* MONGODB_SETTINGS["enable_storage"] of a process that imports settings.py
\* while os.environ has ENABLE_MONGODB_STORAGE set to "true" (environ) or
\* not: os.getenv("ENABLE_MONGODB_STORAGE", "false").lower() == "true"
ImportSettings(environ) == environ

\* os.environ after _configure_mongodb(enable_mongodb, ...)
_configure_mongodb(environ, enable_mongodb) ==
    IF enable_mongodb THEN TRUE ELSE environ

\* The values the setting can have in the process that runs the tasks.
\* main.py imports storage_manager, and with it settings.py, before main()
\* calls _configure_mongodb: a task that runs in the main process, or in a
\* worker forked from it, reads the dict built at that import.  A worker
\* that the pool spawns imports settings.py again, with the environment as
\* _configure_mongodb left it.  Which of the two a build does depends on
\* the start method of its platform.
TaskSettings(environ, enable_mongodb) ==
    { ImportSettings(environ),
      ImportSettings(_configure_mongodb(environ, enable_mongodb)) }

\* ProgressLogger(total): the fields of the new object and the line logged
log_interval == 5
ProgressLogger(total) ==
    [total |-> total, current |-> 0, last_logged_percent |-> 0]
Started(p) == << <<"started", p.total>> >>

\* ProgressLogger.update() on the object p: the object afterwards and the
\* line it logs, if any
update(p) ==
    LET current == p.current + 1
        percent == (current * 100) \div p.total
        logs == \/ percent >= p.last_logged_percent + log_interval
                \/ current = p.total
    IN  [ object |-> [p EXCEPT !.current = current,
                               !.last_logged_percent =
                                   IF logs THEN percent ELSE @],
          logged |-> IF logs THEN << <<"update", current, p.total, percent>> >>
                     ELSE <<>> ]

\* ProgressLogger.complete(success_count): the line it logs
complete(p, count) == << <<"complete", count, p.total>> >>

\* sum(1 for r in results if r.get("success", False))
success_count(rs) == Cardinality({ i \in 1..Len(rs) : rs[i].success })

\* process_batch is entered in a run whose command line has the flag
\* --enable-mongodb or not, as flags allows
InitBatch(flags) ==
    /\ InitStorage({})
    /\ IdleCleaner
    /\ IdlePure
    /\ progress = ProgressLogger(NDocs)
    /\ progress_log = Started(progress)
    /\ \E environ \in BOOLEAN, enable_mongodb \in flags :
         /\ run = [ ENABLE_MONGODB_STORAGE |-> environ,
                    enable_mongodb |-> enable_mongodb ]
         /\ enable_storage \in TaskSettings(environ, enable_mongodb)
    /\ pc = [d \in Docs |-> "queued"]
    /\ trace = [d \in Docs |-> <<>>]
    /\ wrote = [d \in Docs |-> FALSE]
    /\ report = [d \in Docs |-> <<>>]
    /\ storage_results = [d \in Docs |-> <<>>]
    /\ future = [d \in Docs |-> NoFuture]
    /\ results = <<>>
    /\ batch = "running"

\* a run without the flag: the toggle is what the environment says
Init == InitBatch({FALSE})

\* stage of document d is completed; next is the stage that follows
Advance(d, stage, next) ==
    /\ pc[d] = stage
    /\ pc' = [pc EXCEPT ![d] = next]
    /\ trace' = [trace EXCEPT ![d] = Append(@, stage)]

\* a free worker of the pool takes the next submitted task
Start(d) ==
    /\ batch = "running"
    /\ pc[d] = "queued"
    /\ \A e \in Docs : e < d => pc[e] # "queued"
    /\ Cardinality({e \in Docs : pc[e] \in RunningStages}) < max_workers
    /\ pc' = [pc EXCEPT ![d] = "load"]
    /\ UNCHANGED <<run, enable_storage, trace, wrote, report, storage_results,
                   future, results, batch>>
    /\ UNCHANGED <<storeVars, cleanVars, pureVars, progress, progress_log>>

\* html_utils.load_html
Load(d) ==
    /\ Advance(d, "load", "extract")
    /\ UNCHANGED <<run, enable_storage, wrote, report, storage_results,
                   future, results, batch>>
    /\ UNCHANGED <<storeVars, cleanVars, pureVars, progress, progress_log>>

\* extract_data
Extract(d) ==
    /\ Advance(d, "extract", "clean")
    /\ UNCHANGED <<run, enable_storage, wrote, report, storage_results,
                   future, results, batch>>
    /\ UNCHANGED <<storeVars, cleanVars, pureVars, progress, progress_log>>

\* process_data: cleaner.clean_and_standardize
Clean(d) ==
    /\ Advance(d, "clean", "normalize")
    /\ UNCHANGED <<run, enable_storage, wrote, report, storage_results,
                   future, results, batch>>
    /\ UNCHANGED <<storeVars, cleanVars, pureVars, progress, progress_log>>

\* process_data: normalizer.normalize_data
Normalize(d) ==
    /\ Advance(d, "normalize", "storage")
    /\ UNCHANGED <<run, enable_storage, wrote, report, storage_results,
                   future, results, batch>>
    /\ UNCHANGED <<storeVars, cleanVars, pureVars, progress, progress_log>>

\* the storage step of process_data is over: _storage_info is attached to the
\* record and process_data returns
StorageStepDone(d, sr, outcome) ==
    /\ Advance(d, "storage", "validate")
    /\ storage_results' = [storage_results EXCEPT ![d] = sr]
    /\ wrote' = [wrote EXCEPT ![d] = outcome.wrote]
    /\ UNCHANGED <<run, enable_storage, report, future, results, batch>>
    /\ UNCHANGED <<storeVars, cleanVars, pureVars, progress, progress_log>>

NoSave == [ret |-> FALSE, wrote |-> FALSE]

\* DataStorage() with the toggle off: store_trial_data does nothing
StorageDisabled(d) ==
    /\ ~enable_storage
    /\ StorageStepDone(d, StorageResults(FALSE, FALSE, "None"), NoSave)

\* variant of StorageConnectFail: the connection error leaves process_data
\* and reaches the except clause of process_file
StorageConnectFail_Raises(d) ==
    /\ enable_storage
    /\ pc[d] = "storage"
    /\ future' = [future EXCEPT ![d] =
                    [state |-> "result",
                     value |-> WrapResult(d, FailureResult(d, "connection refused"))]]
    /\ pc' = [pc EXCEPT ![d] = "returned"]
    /\ UNCHANGED <<run, enable_storage, trace, wrote, report, storage_results,
                   results, batch>>
    /\ UNCHANGED <<storeVars, cleanVars, pureVars, progress, progress_log>>

\* DataStorage._initialize_mongodb: connect() returns False (or raises);
\* mongodb_enabled is reset and store_trial_data skips the save
StorageConnectFail(d) ==
    /\ enable_storage
    /\ StorageStepDone(d, StorageResults(FALSE, FALSE, "None"), NoSave)

\* store_trial_data on a connected store: save_trial_data returns
StoreTrialData(d) ==
    /\ enable_storage
    /\ \E o \in SaveOutcomes :
          StorageStepDone(d, StorageResults(TRUE, o.ret, "None"), o)

\* store_trial_data has returned, closing the connection raises: the except
\* clause of process_data replaces the storage results
StoreCloseError(d) ==
    /\ enable_storage
    /\ \E o \in SaveOutcomes :
          StorageStepDone(d, StorageResults(FALSE, FALSE, "close failed"), o)

\* validator.validate_and_report
Validate(d) ==
    /\ Advance(d, "validate", "export")
    /\ \E rep \in Reports : report' = [report EXCEPT ![d] = rep]
    /\ UNCHANGED <<run, enable_storage, wrote, storage_results,
                   future, results, batch>>
    /\ UNCHANGED <<storeVars, cleanVars, pureVars, progress, progress_log>>

\* the task is over: process_file_wrapper merges the dict returned by
\* process_file into its own and returns it; the future gets this result
\* (the task works on the copy of the ProgressLogger object that was pickled
\* with its arguments: progress.update() changes and logs from that copy)
ReturnFromTask(d, result) ==
    /\ future' = [future EXCEPT ![d] =
                    [state |-> "result", value |-> WrapResult(d, result)]]
    /\ pc' = [pc EXCEPT ![d] = "returned"]
    /\ progress_log' = progress_log \o update(progress).logged

\* variant of Export: a failing report keeps the record from being exported
Export_Gated(d) ==
    /\ pc[d] = "export"
    /\ IF report[d].valid
       THEN /\ trace' = [trace EXCEPT ![d] = Append(@, "export")]
            /\ future' = [future EXCEPT ![d] =
                   [state |-> "result",
                    value |-> WrapResult(d, SuccessResult(d, report[d],
                                                          ExportResults))]]
       ELSE /\ trace' = trace
            /\ future' = [future EXCEPT ![d] =
                   [state |-> "result",
                    value |-> WrapResult(d, FailureResult(d, "validation failed"))]]
    /\ pc' = [pc EXCEPT ![d] = "returned"]
    /\ UNCHANGED <<run, enable_storage, wrote, report, storage_results,
                   results, batch>>
    /\ UNCHANGED <<storeVars, cleanVars, pureVars, progress, progress_log>>

\* export_data, then the normal return of process_file
Export(d) ==
    /\ pc[d] = "export"
    /\ trace' = [trace EXCEPT ![d] = Append(@, "export")]
    /\ ReturnFromTask(d, SuccessResult(d, report[d], ExportResults))
    /\ UNCHANGED <<run, enable_storage, wrote, report, storage_results,
                   results, batch>>
    /\ UNCHANGED <<storeVars, cleanVars, pureVars, progress>>

\* what a task holds in memory is dropped for the documents in ds
DropLocals(ds) ==
    /\ report' = [e \in Docs |-> IF e \in ds THEN <<>> ELSE report[e]]
    /\ storage_results' = [e \in Docs |-> IF e \in ds THEN <<>> ELSE storage_results[e]]

\* a stage raises: the except clause of process_file builds the failure dict
\* (the record, the report and the storage results are not part of it)
Raise(d) ==
    /\ pc[d] \in TryStages
    /\ ReturnFromTask(d, FailureResult(d, ErrorText(pc[d])))
    /\ DropLocals({d})
    /\ UNCHANGED <<run, enable_storage, trace, wrote, results, batch>>
    /\ UNCHANGED <<storeVars, cleanVars, pureVars, progress>>

\* the worker process executing d terminates abruptly: the executor marks the
\* pool broken, fails every future that has no result yet with
\* BrokenProcessPool and terminates the remaining workers
WorkerDies(d) ==
    /\ pc[d] \in RunningStages
    /\ LET lost == {e \in Docs : pc[e] \in RunningStages \cup {"queued"}} IN
         /\ pc' = [e \in Docs |-> IF e \in lost THEN "broken" ELSE pc[e]]
         /\ future' = [e \in Docs |->
                         IF e \in lost
                         THEN [state |-> "exception", value |-> BrokenProcessPool]
                         ELSE future[e]]
         /\ DropLocals(lost)
         /\ trace' = [e \in Docs |-> IF e \in lost THEN <<>> ELSE trace[e]]
         /\ wrote' = [e \in Docs |-> IF e \in lost THEN FALSE ELSE wrote[e]]
    /\ UNCHANGED <<run, enable_storage, results, batch>>
    /\ UNCHANGED <<storeVars, cleanVars, pureVars, progress, progress_log>>

\* variant of Collect: future.result() is not guarded, a failed future is
\* never turned into an entry of results
Collect_Unguarded(d) ==
    /\ batch = "running"
    /\ pc[d] = "returned"
    /\ results' = Append(results, future[d].value)
    /\ pc' = [pc EXCEPT ![d] = "collected"]
    /\ DropLocals({d})
    /\ wrote' = [wrote EXCEPT ![d] = FALSE]
    /\ UNCHANGED <<run, enable_storage, trace, future, batch>>
    /\ UNCHANGED <<storeVars, cleanVars, pureVars, progress, progress_log>>

\* process_batch: as_completed yields a finished future; its result, or the
\* failure entry built from its exception, is appended to results (the worker
\* has returned: nothing but the result is left of what the task held)
Collect(d) ==
    /\ batch = "running"
    /\ pc[d] \in {"returned", "broken"}
    /\ results' = Append(results,
                         IF future[d].state = "result"
                         THEN future[d].value
                         ELSE ExceptionResult(d, future[d].value))
    /\ pc' = [pc EXCEPT ![d] = IF pc[d] = "broken" THEN "collected_broken"
                                                   ELSE "collected"]
    /\ DropLocals({d})
    /\ wrote' = [wrote EXCEPT ![d] = FALSE]
    /\ UNCHANGED <<run, enable_storage, trace, future, batch>>
    /\ UNCHANGED <<storeVars, cleanVars, pureVars, progress, progress_log>>

Collected(d) == pc[d] \in {"collected", "collected_broken"}

\* process_batch returns results once every future has been collected
Finish ==
    /\ batch = "running"
    /\ \A d \in Docs : Collected(d)
    /\ batch' = "done"
    /\ progress_log' = progress_log \o complete(progress, success_count(results))
    /\ UNCHANGED <<run, enable_storage, pc, trace, wrote, report, storage_results,
                   future, results>>
    /\ UNCHANGED <<storeVars, cleanVars, pureVars, progress>>

Next ==
    \/ \E d \in Docs :
        \/ Start(d)
        \/ Load(d)
        \/ Extract(d)
        \/ Clean(d)
        \/ Normalize(d)
        \/ StorageDisabled(d)
        \/ StorageConnectFail(d)
        \/ StoreTrialData(d)
        \/ StoreCloseError(d)
        \/ Validate(d)
        \/ Export(d)
        \/ Raise(d)
        \/ WorkerDies(d)
        \/ Collect(d)
    \/ Finish

Spec == Init /\ [][Next]_vars

\* SpecRun: the same batch in a run started with or without the flag
InitRun == InitBatch(BOOLEAN)
SpecRun == InitRun /\ [][Next]_vars

\* the workers and the collecting loop keep running: a step that can be
\* taken is eventually taken
FairSpec == Spec /\ WF_vars(Next)

(***************************************************************************)
(* Batch and pipeline claims                                               *)
(***************************************************************************)
Range(f) == { f[i] : i \in DOMAIN f }

FullPipeline ==
    <<"load", "extract", "clean", "normalize", "storage", "validate", "export">>

\* no stage of the document raised: process_file ran to its normal return
Processed(d) == trace[d] = FullPipeline

\* no worker process died during the run
NoWorkerDied == \A d \in Docs : pc[d] \notin {"broken", "collected_broken"}

EntriesOf(d) == { i \in 1..Len(results) : results[i].file = d }

\* C1: when process_batch has returned (no worker process having died), results
\* has exactly one entry per input document; the entry of a document in which a
\* stage raised has success = False and a non-empty error text, the entry of
\* every other document has success = True, in whatever order the tasks ended.
C1_OneResultPerDocument ==
    (batch = "done" /\ NoWorkerDied) =>
        /\ Len(results) = NDocs
        /\ \A d \in Docs :
              /\ Cardinality(EntriesOf(d)) = 1
              /\ \A i \in EntriesOf(d) :
                    IF Processed(d)
                    THEN results[i].success
                    ELSE ~results[i].success /\ results[i].error # ""

\* witness of C1: the run is over, the document collected first was submitted
\* last, one document was unreadable and another one was processed
C1_Witness ==
    /\ batch = "done" /\ NoWorkerDied
    /\ results[1].file = NDocs
    /\ \E d, e \in Docs :
          /\ trace[d] = <<>> /\ Processed(e)
          /\ \E i \in EntriesOf(d) : ~results[i].success
          /\ \E i \in EntriesOf(e) : results[i].success

\* the stages of d other than the storage step, in the order they completed
StagesOf(d) == SelectSeq(trace[d], LAMBDA x : x # "storage")

ClaimedOrder == <<"load", "extract", "clean", "normalize", "validate", "export">>

\* C5 (as stated): the stages of a document run in the order extract, clean,
\* normalize, validate, export/persist; nothing of the document is written to
\* storage and nothing is exported before its validation has completed.
C5_PersistAfterValidation ==
    \A d \in Docs :
        /\ StagesOf(d) = SubSeq(ClaimedOrder, 1, Len(StagesOf(d)))
        /\ wrote[d] => "validate" \in Range(trace[d])

\* the task of d has ended in Done or Failed
Terminal(d) == future[d].state \in {"result", "exception"}

C7_CrashFailsOneDocument ==
    Cardinality({ d \in Docs : future[d].state = "exception" }) <= 1

\* the storage step of d is over without the record having been written
StorageFailed(d) ==
    /\ enable_storage
    /\ "storage" \in Range(trace[d])
    /\ DOMAIN storage_results[d] # {}
    /\ ~wrote[d]

\* C8: storage enabled, connection or write failed: the document is not failed
\* by it (a failure entry always carries the error of one of the stages load,
\* extract, clean, normalize, validate, export), and a document that no stage
\* failed is validated, exported and successful, with persistence reported as
\* disabled or unsuccessful.
C8_StorageFailureTolerated ==
    \A d \in Docs :
        (future[d].state = "result") =>
            /\ ~future[d].value.success =>
                  future[d].value.error \in { ErrorText(st) : st \in TryStages }
            /\ (StorageFailed(d) /\ future[d].value.success) =>
                  /\ Processed(d)
                  /\ ~storage_results[d].enabled \/ ~storage_results[d].success

\* witness of C8: a document whose save failed is Done, another one whose
\* connection failed is Done too
C8_Witness ==
    \E d, e \in Docs :
        /\ d # e /\ StorageFailed(d) /\ StorageFailed(e)
        /\ future[d].state = "result" /\ future[d].value.success
        /\ future[e].state = "result" /\ future[e].value.success
        /\ storage_results[d].enabled /\ ~storage_results[d].success
        /\ ~storage_results[e].enabled

\* the validation report of d is failing
FailingReport(d) ==
    /\ DOMAIN report[d] # {}
    /\ ~report[d].valid /\ report[d].issues # <<>>

\* C9: a document whose validation report is failing still goes through the
\* export, its storage step is not undone, and its result is successful and
\* carries valid = False and the issue list of the report.
C9_ValidationIsAdvisory ==
    \A d \in Docs :
        (future[d].state = "result" /\ FailingReport(d)) =>
            /\ future[d].value.success
            /\ future[d].value.valid = FALSE
            /\ future[d].value.issues = report[d].issues
            /\ Processed(d)

\* witness of C9: a document with a failing report is Done, exported and stored
C9_Witness ==
    \E d \in Docs :
        /\ future[d].state = "result" /\ FailingReport(d)
        /\ future[d].value.success /\ ~future[d].value.valid
        /\ wrote[d] /\ "export" \in Range(trace[d])

(***************************************************************************)
(* Storage claims                                                          *)
(***************************************************************************)
\* the save of client c has returned True for identifier k
SavedOk(c, k) ==
    spc[c] = "done" /\ sret[c] /\ EuctNumber(tdata[c].rec) = k

\* clients that have entered save_trial_data with identifier k
SaversOf(k) == { c \in Clients : spc[c] # "idle" /\ EuctNumber(tdata[c].rec) = k }

\* contents (outside metadata) of the stored documents with identifier k
BodiesFor(k) == { coll[i].body : i \in Matching(coll, k) }

\* C2 (as stated): save(r1) followed by save(r2), same header.euct_number and
\* different content, on a connected store with its unique index: exactly one
\* stored document for the key, its content is r2's (nothing of r1 that r2
\* lacks survives), created_at is the value written by the first save and
\* updated_at is later than the one written by the first save.
C2_SecondSaveReplaces ==
    \A a, b \in Clients : \A k \in Keys :
        ( /\ a # b /\ SaversOf(k) = {a, b}
          /\ SavedOk(a, k) /\ SavedOk(b, k)
          /\ a \in sinfo[b].prior
          /\ tdata[a].rec # tdata[b].rec
          /\ uniqueIndex )
        => /\ Cardinality(Matching(coll, k)) = 1
           /\ \A i \in Matching(coll, k) :
                 /\ coll[i].body = tdata[b].rec
                 /\ coll[i].meta.created_at = sinfo[a].at
                 /\ coll[i].meta.updated_at > sinfo[a].at + 1

\* C3 (as stated): in every reachable state of the collection there is at most
\* one stored document per trial identifier.
C3_AtMostOnePerIdentifier ==
    \A k \in Keys : Cardinality(Matching(coll, k)) <= 1

\* C4 (as stated): two writers saving records with the same natural key leave
\* the same stored content (timestamps aside) whatever the interleaving of
\* their insert and update steps: the content is the one of the reference
\* order "a saves, then b saves".
C4_AnyRecordsCommute ==
    \A a, b \in Clients : \A k \in Keys :
        ( /\ a < b /\ SaversOf(k) = {a, b}
          /\ SavedOk(a, k) /\ SavedOk(b, k)
          /\ uniqueIndex )
        => BodiesFor(k) = { SetFields(tdata[a].rec, tdata[b].rec) }

\* C4 (amended): when every successful save for an identifier carried the same
\* record r, however many there were and however their insert and update
\* steps interleaved, every stored document for that identifier has exactly
\* the content r outside its metadata branch (commutative for equal records,
\* and saving twice leaves what saving once leaves).
C4_SameRecordCommutes ==
    \A k \in Keys : \A r \in Records :
        ( /\ \E c \in Clients : SavedOk(c, k)
          /\ \A c \in Clients : SavedOk(c, k) => tdata[c].rec = r )
        => BodiesFor(k) = {r}

\* witness of C4: two writers saved the same record under the same identifier,
\* one through insert_one and the other through the update path
C4_Witness ==
    \E a, b \in Clients : \E k \in Keys :
        /\ a # b /\ SavedOk(a, k) /\ SavedOk(b, k)
        /\ tdata[a].rec = tdata[b].rec
        /\ "trial_results" \in DOMAIN tdata[a].rec
        /\ sinfo[a].path = "insert" /\ sinfo[b].path = "update"
        /\ BodiesFor(k) = {tdata[a].rec}

(***************************************************************************)
(* SpecClean: processors/cleaner.py on record trees.  A value is a tagged  *)
(* tuple: None, a number, a string (sequence of characters), a dict        *)
(* (sequence of <<key, value>> items in insertion order, keys distinct) or *)
(* a list (sequence of values).                                            *)
(***************************************************************************)
MaxDepth == 3    \* nesting depth of the record trees
MaxText == 2     \* length of the strings at the leaves
MaxPasses == 2   \* successive applications of clean_and_standardize

None == <<"none">>
Num(n) == <<"num", n>>
Str(t) == <<"str", t>>
Dict(items) == <<"dict", items>>
List(elems) == <<"list", elems>>

IsNone(v) == v[1] = "none"
IsStr(v) == v[1] = "str"
IsDict(v) == v[1] = "dict"
IsList(v) == v[1] = "list"

\* characters of the values: a letter, a space, a no-break space (U+00A0) and
\* an en dash (U+2013); characters of the keys: letters, space, hyphen
TextChars == {"a", " ", "nbsp", "ndash"}
KeyChars == {"a", "A", " ", "-"}

RECURSIVE TextsUpTo(_)
TextsUpTo(n) ==
    IF n = 0 THEN {<<>>}
    ELSE LET shorter == TextsUpTo(n - 1) IN
         shorter \cup { Append(t, c) : t \in shorter, c \in TextChars }

Texts == TextsUpTo(MaxText)
DictKeys == { <<c>> : c \in KeyChars }
Leaves == {None, Num(0)} \cup { Str(t) : t \in Texts }

\* the values of nesting depth at most n, dicts and lists of at most one entry
RECURSIVE ValuesUpTo(_)
ValuesUpTo(n) ==
    IF n = 0 THEN Leaves
    ELSE LET sub == ValuesUpTo(n - 1) IN
         Leaves \cup {Dict(<<>>), List(<<>>)}
                \cup { Dict(<< <<k, v>> >>) : k \in DictKeys, v \in sub }
                \cup { List(<<v>>) : v \in sub }

\* the records handed to the cleaner: dicts of nesting depth at most n
ExtractedRecords(n) == { v \in ValuesUpTo(n) : IsDict(v) }

\* bool(value) of Python
Truthy(v) ==
    IF IsNone(v) THEN FALSE
    ELSE IF v[1] = "num" THEN v[2] # 0
    ELSE v[2] # <<>>

\* result[key] = value on a dict under construction
DictSet(items, key, value) ==
    IF \E i \in 1..Len(items) : items[i][1] = key
    THEN [ i \in 1..Len(items) |->
             IF items[i][1] = key THEN <<key, value>> ELSE items[i] ]
    ELSE Append(items, <<key, value>>)

\* characters matched by \s and removed by str.strip()
IsSpace(c) == c \in {" ", "nbsp"}

RECURSIVE SkipSpaces(_)
SkipSpaces(t) ==
    IF t # <<>> /\ IsSpace(Head(t)) THEN SkipSpaces(Tail(t)) ELSE t

\* re.sub(r'\s+', ' ', text)
RECURSIVE CollapseSpaces(_)
CollapseSpaces(t) ==
    IF t = <<>> THEN <<>>
    ELSE IF IsSpace(Head(t)) THEN <<" ">> \o CollapseSpaces(SkipSpaces(t))
    ELSE <<Head(t)>> \o CollapseSpaces(Tail(t))

RECURSIVE DropTrailingSpaces(_)
DropTrailingSpaces(t) ==
    IF t # <<>> /\ IsSpace(t[Len(t)])
    THEN DropTrailingSpaces(SubSeq(t, 1, Len(t) - 1))
    ELSE t

\* str.strip()
Strip(t) == DropTrailingSpaces(SkipSpaces(t))

\* the chain of str.replace calls of clean_text
ReplaceSpecial(t) ==
    [ i \in 1..Len(t) |->
        IF t[i] = "nbsp" THEN " " ELSE IF t[i] = "ndash" THEN "-" ELSE t[i] ]

clean_text(text) ==
    IF text = <<>> THEN text ELSE ReplaceSpecial(Strip(CollapseSpaces(text)))

\* clean_data: strings cleaned, dicts recursed into, list items that are dicts
\* or strings cleaned, anything else kept
RECURSIVE clean_data(_)
clean_data(data) ==
    IF ~IsDict(data) THEN data
    ELSE LET items == data[2]
             CleanItem(item) ==
                 IF IsDict(item) THEN clean_data(item)
                 ELSE IF IsStr(item) THEN Str(clean_text(item[2]))
                 ELSE item
             CleanValue(value) ==
                 IF IsStr(value) THEN Str(clean_text(value[2]))
                 ELSE IF IsDict(value) THEN clean_data(value)
                 ELSE IF IsList(value)
                      THEN List([ j \in 1..Len(value[2]) |-> CleanItem(value[2][j]) ])
                 ELSE value
         IN Dict([ i \in 1..Len(items) |-> <<items[i][1], CleanValue(items[i][2])>> ])

\* handle_missing_values: None values of dicts replaced by default_value, at
\* every depth; list items are recursed into when they are dicts
RECURSIVE handle_missing_values(_, _)
handle_missing_values(data, default_value) ==
    IF ~IsDict(data) THEN data
    ELSE LET items == data[2]
             Value(value) ==
                 IF IsNone(value) THEN default_value
                 ELSE IF IsDict(value) THEN handle_missing_values(value, default_value)
                 ELSE IF IsList(value)
                      THEN List([ j \in 1..Len(value[2]) |->
                                    IF IsDict(value[2][j])
                                    THEN handle_missing_values(value[2][j], default_value)
                                    ELSE value[2][j] ])
                 ELSE value
         IN Dict([ i \in 1..Len(items) |-> <<items[i][1], Value(items[i][2])>> ])

\* the condition of the list comprehension of remove_empty_values:
\* item or not isinstance(item, (str, dict, list))
KeptItem(item) == Truthy(item) \/ ~(IsStr(item) \/ IsDict(item) \/ IsList(item))

RECURSIVE remove_empty_values(_, _, _)
\* remove_empty_values: the loop over data.items()
RECURSIVE RemoveEmptyItems(_, _, _, _)
RemoveEmptyItems(items, result, remove_empty_lists, remove_empty_dicts) ==
    IF items = <<>> THEN result
    ELSE LET key == Head(items)[1]
             value == Head(items)[2]
             cleaned_dict ==
                 remove_empty_values(value, remove_empty_lists, remove_empty_dicts)
             kept == SelectSeq(value[2], KeptItem)
             cleaned_list ==
                 List([ j \in 1..Len(kept) |->
                          IF IsDict(kept[j])
                          THEN remove_empty_values(kept[j], remove_empty_lists,
                                                   remove_empty_dicts)
                          ELSE kept[j] ])
             next ==
                 IF IsDict(value)
                 THEN IF Truthy(cleaned_dict) \/ ~remove_empty_dicts
                      THEN DictSet(result, key, cleaned_dict) ELSE result
                 ELSE IF IsList(value)
                 THEN IF Truthy(cleaned_list) \/ ~remove_empty_lists
                      THEN DictSet(result, key, cleaned_list) ELSE result
                 ELSE IF Truthy(value) \/ ~IsStr(value)
                      THEN DictSet(result, key, value) ELSE result
         IN RemoveEmptyItems(Tail(items), next, remove_empty_lists, remove_empty_dicts)

remove_empty_values(data, remove_empty_lists, remove_empty_dicts) ==
    IF ~IsDict(data) THEN data
    ELSE Dict(RemoveEmptyItems(data[2], <<>>, remove_empty_lists, remove_empty_dicts))

\* key.lower().replace(' ', '_').replace('-', '_')
NewKey(key) ==
    [ i \in 1..Len(key) |->
        IF key[i] = "A" THEN "a"
        ELSE IF key[i] \in {" ", "-"} THEN "_"
        ELSE key[i] ]

\* standardize_keys: the loop over data.items(); a later item whose new key is
\* already in result replaces the value stored under it
RECURSIVE standardize_keys(_)
RECURSIVE StandardizeItems(_, _)
StandardizeItems(items, result) ==
    IF items = <<>> THEN result
    ELSE LET new_key == NewKey(Head(items)[1])
             value == Head(items)[2]
             new_value ==
                 IF IsDict(value) THEN standardize_keys(value)
                 ELSE IF IsList(value)
                      THEN List([ j \in 1..Len(value[2]) |->
                                    IF IsDict(value[2][j])
                                    THEN standardize_keys(value[2][j])
                                    ELSE value[2][j] ])
                 ELSE value
         IN StandardizeItems(Tail(items), DictSet(result, new_key, new_value))

standardize_keys(data) ==
    IF ~IsDict(data) THEN data ELSE Dict(StandardizeItems(data[2], <<>>))

clean_and_standardize(data) ==
    standardize_keys(
        remove_empty_values(
            handle_missing_values(clean_data(data), Str(<<>>)), TRUE, TRUE))

\* == of Python on two values: dicts are equal whatever the order of their items
RECURSIVE PyEqual(_, _)
PyEqual(a, b) ==
    IF IsDict(a) /\ IsDict(b)
    THEN /\ Len(a[2]) = Len(b[2])
         /\ \A i \in 1..Len(a[2]) : \E j \in 1..Len(b[2]) :
               a[2][i][1] = b[2][j][1] /\ PyEqual(a[2][i][2], b[2][j][2])
    ELSE IF IsList(a) /\ IsList(b)
    THEN /\ Len(a[2]) = Len(b[2])
         /\ \A i \in 1..Len(a[2]) : PyEqual(a[2][i], b[2][i])
    ELSE a = b

\* the value the next call of clean_and_standardize is applied to
Current == IF cout = <<>> THEN cin ELSE cout[Len(cout)]

InitClean ==
    /\ InitStorage({})
    /\ IdleBatch
    /\ IdlePure
    /\ cin \in ExtractedRecords(MaxDepth)
    /\ cout = <<>>

\* process_data calls cleaner.clean_and_standardize on the extracted record;
\* a later run feeds the cleaned record to it again
CleanAndStandardize ==
    /\ Len(cout) < MaxPasses
    /\ cout' = Append(cout, clean_and_standardize(Current))
    /\ UNCHANGED cin
    /\ UNCHANGED <<storeVars, batchVars, pureVars>>

NextClean == CleanAndStandardize

SpecClean == InitClean /\ [][NextClean]_vars

(***************************************************************************)
(* Cleaning claims                                                         *)
(***************************************************************************)
\* C10 (as stated): clean_and_standardize is idempotent: cleaning a cleaned
\* record gives the cleaned record again, for every extracted record.
C10_CleanIdempotent ==
    Len(cout) >= 2 => PyEqual(cout[2], cout[1])

(***************************************************************************)
(* Library functions (SpecPure): utils/date_utils.py                       *)
(*                                                                         *)
(* A string is a sequence of symbols.  A symbol is a maximal run of digits *)
(* ("2020", "05"), a maximal run of letters ("TBD", "Yes") or one other    *)
(* character ("/", "-", ".", " ", ",", "+"); two digit runs, or two letter *)
(* runs, are never adjacent in a string.                                   *)
(***************************************************************************)
MaxDecor == 1     \* symbols put before and after a date in an input string

\* the digit runs of the inputs with int() of each
TokenValue ==
    ("2020" :> 2020) @@ ("2021" :> 2021) @@
    ("01" :> 1) @@ ("1" :> 1) @@ ("05" :> 5) @@ ("06" :> 6) @@
    ("12" :> 12) @@ ("13" :> 13) @@ ("15" :> 15) @@ ("31" :> 31) @@
    ("0" :> 0) @@ ("18" :> 18) @@ ("64" :> 64) @@ ("65" :> 65)
\* the digit runs the dates of the inputs are made of
YearTokens == {"2020", "2021"}
FieldTokens == {"01", "1", "05", "06", "12", "13", "15", "31"}
IsNumber(c) == c \in DOMAIN TokenValue
\* len(token) of a digit run
TokenLen(c) == IF c \in YearTokens THEN 4 ELSE IF c \in {"0", "1"} THEN 1 ELSE 2
DateSeparators == {"/", "-", "."}

\* re.sub(r'[^\d/\-\.]', ' ', date_str): every character that is not a
\* digit or one of / - . becomes a space
BlankNonDate(t) ==
    [i \in 1..Len(t) |->
        IF IsNumber(t[i]) \/ t[i] \in DateSeparators THEN t[i] ELSE " "]

\* calendar.monthrange(year, month)[1]
DaysInMonth(year, month) ==
    IF month \in {4, 6, 9, 11} THEN 30
    ELSE IF month # 2 THEN 31
    ELSE IF year % 4 = 0 /\ (year % 100 # 0 \/ year % 400 = 0) THEN 29
    ELSE 28

ValueError == <<"ValueError">>
Raised(r) == r = ValueError

\* datetime(year, month, day): ValueError unless it is a calendar date
MkDate(year, month, day) ==
    IF /\ year \in 1..9999
       /\ month \in 1..12
       /\ day >= 1
       /\ day <= DaysInMonth(year, month)
    THEN <<"date", year, month, day>>
    ELSE ValueError

\* three digit runs joined by twice the same separator
ThreeNumbers(t, seps) ==
    /\ Len(t) = 5
    /\ IsNumber(t[1]) /\ IsNumber(t[3]) /\ IsNumber(t[5])
    /\ t[2] \in seps /\ t[4] = t[2]

\* dateutil.parser.parse(s, dayfirst=True) on a string of three digit runs
\* joined by one separator, or on a string without any digit: _ymd.append
\* takes a run of more than two digits as the year (a second one is an
\* error), _ymd.resolve_ymd orders the three numbers, and a string that
\* holds no date is a ParserError, which is a ValueError
dateutil_parse(t) ==
    IF ~ \E i \in 1..Len(t) : IsNumber(t[i]) THEN ValueError
    ELSE LET a == TokenValue[t[1]]
             b == TokenValue[t[3]]
             c == TokenValue[t[5]]
             long == { i \in {1, 3, 5} : TokenLen(t[i]) > 2 }
         IN  IF Cardinality(long) > 1 THEN ValueError
             ELSE IF a > 31 \/ long = {1}
                  THEN IF c <= 12 THEN MkDate(a, c, b)   \* year, day, month
                       ELSE MkDate(a, b, c)              \* year, month, day
             ELSE IF a > 12 \/ b <= 12 THEN MkDate(c, b, a) \* day, month, year
             ELSE MkDate(c, a, b)                           \* month, day, year

\* datetime.strptime(s, fmt) for the formats of NORMALIZATION['date_formats']:
\* %Y is exactly four digits, %d and %m one or two digits
strptime(t, fmt) ==
    IF fmt[1] = "%Y"
    THEN IF ThreeNumbers(t, {"-"}) /\ TokenLen(t[1]) = 4
            /\ TokenLen(t[3]) <= 2 /\ TokenLen(t[5]) <= 2
         THEN MkDate(TokenValue[t[1]], TokenValue[t[3]], TokenValue[t[5]])
         ELSE ValueError
    ELSE IF ThreeNumbers(t, {fmt[2]}) /\ TokenLen(t[5]) = 4
            /\ TokenLen(t[1]) <= 2 /\ TokenLen(t[3]) <= 2
         THEN MkDate(TokenValue[t[5]], TokenValue[t[3]], TokenValue[t[1]])
         ELSE ValueError

\* NORMALIZATION['date_formats'], each format split into its directives and
\* separators
date_formats ==
    << <<"%Y", "-", "%m", "-", "%d">>, <<"%d", "/", "%m", "/", "%Y">>,
       <<"%d", "-", "%m", "-", "%Y">>, <<"%d", ".", "%m", ".", "%Y">> >>

Pad2(n) == IF n < 10 THEN "0" \o ToString(n) ELSE ToString(n)

\* dt.strftime(NORMALIZATION['output_date_format']), for a four-digit year
strftime(dt) == << ToString(dt[2]), "-", Pad2(dt[3]), "-", Pad2(dt[4]) >>

\* the first format of date_formats, from the i-th on, that strptime accepts
RECURSIVE FirstFormat(_, _)
FirstFormat(t, i) ==
    IF i > Len(date_formats) THEN ValueError
    ELSE IF ~ Raised(strptime(t, date_formats[i]))
         THEN strptime(t, date_formats[i])
    ELSE FirstFormat(t, i + 1)

\* normalize_date(date_str) for a string argument
normalize_date(date_str) ==
    IF Strip(date_str) = <<>> THEN None
    ELSE LET cleaned == Strip(CollapseSpaces(BlankNonDate(Strip(date_str))))
             dt == dateutil_parse(cleaned)
         IN  IF ~ Raised(dt) THEN Str(strftime(dt))
             ELSE IF ~ Raised(FirstFormat(cleaned, 1))
                  THEN Str(strftime(FirstFormat(cleaned, 1)))
             ELSE Str(cleaned)

\* is_date_valid(date_str) for a string argument
is_date_valid(date_str) ==
    /\ ~ IsNone(normalize_date(date_str))
    /\ normalize_date(date_str) # Str(date_str)


\* the strings handed to normalize_date: a date of three numbers or a text
\* without digits, with up to n symbols of decoration on each side
Decorations(n) ==
    UNION { [1..k -> {" ", ":"}] : k \in 0..n }
DateCores ==
    { <<y, s, a, s, b>> : y \in YearTokens, s \in DateSeparators,
                          a \in FieldTokens, b \in FieldTokens }
    \cup { <<a, s, b, s, y>> : y \in YearTokens, s \in DateSeparators,
                               a \in FieldTokens, b \in FieldTokens }
    \cup { <<>>, <<"TBD">>, <<"N", "/", "A">>, <<"-">> }
DateStrings(n) ==
    { pre \o core \o post :
        pre \in Decorations(n), post \in Decorations(n), core \in DateCores }

CallNormalizeDate ==
    /\ fcall = "none"
    /\ \E s \in DateStrings(MaxDecor) :
         /\ fcall' = "normalize_date"
         /\ farg' = s
         /\ fret' = normalize_date(s)
    /\ UNCHANGED <<storeVars, batchVars, cleanVars>>

(***************************************************************************)
(* utils/date_utils.py: normalize_boolean                                  *)
(***************************************************************************)
MaxSymbols == 3   \* longest string, in symbols, handed to a normaliser

Bool(b) == <<"bool", b>>

\* str.lower() of a run of letters
LowerCase ==
    ("Yes" :> "yes") @@ ("YES" :> "yes") @@ ("Y" :> "y") @@ ("NO" :> "no") @@
    ("Non" :> "non") @@ ("True" :> "true") @@ ("F" :> "f") @@
    ("Phase" :> "phase") @@ ("France" :> "france") @@ ("II" :> "ii") @@
    ("Update" :> "update") @@ ("Trial" :> "trial") @@
    ("Germany" :> "germany") @@ ("UK" :> "uk")
Lower(t) ==
    [i \in 1..Len(t) |-> IF t[i] \in DOMAIN LowerCase THEN LowerCase[t[i]]
                         ELSE t[i]]

\* NORMALIZATION['boolean_true_values'], NORMALIZATION['boolean_false_values']
boolean_true_values ==
    << <<"yes">>, <<"y">>, <<"true">>, <<"t">>, <<"1">>, <<"oui">> >>
boolean_false_values ==
    << <<"no">>, <<"n">>, <<"false">>, <<"f">>, <<"0">>, <<"non">> >>

\* value in a_list
InList(value, a_list) == \E i \in 1..Len(a_list) : a_list[i] = value

normalize_boolean_CaseSensitive(value) ==
    IF value = <<>> THEN None
    ELSE IF InList(Strip(value), boolean_true_values) THEN Bool(TRUE)
    ELSE IF InList(Strip(value), boolean_false_values) THEN Bool(FALSE)
    ELSE None

\* normalize_boolean(value) for a string argument
normalize_boolean(value) ==
    IF value = <<>> THEN None
    ELSE LET v == Lower(Strip(value))
         IN  IF InList(v, boolean_true_values) THEN Bool(TRUE)
             ELSE IF InList(v, boolean_false_values) THEN Bool(FALSE)
             ELSE None

\* letters and digits: two runs of letters are never adjacent in a string,
\* nor two runs of digits
IsLetters(c) ==
    c \in DOMAIN LowerCase
          \cup { LowerCase[u] : u \in DOMAIN LowerCase }
          \cup {"y", "no", "n", "t", "oui", "false", "maybe", "years", "TBD",
                "N", "A", "x", "Guinea", "Bissau", "Ongoing", "Ended"}
WellFormed(t) ==
    \A i \in 1..(Len(t) - 1) :
        /\ ~ (IsLetters(t[i]) /\ IsLetters(t[i + 1]))
        /\ ~ (IsNumber(t[i]) /\ IsNumber(t[i + 1]))

\* the strings of at most n symbols over an alphabet
StringsOver(alphabet, n) ==
    { t \in UNION { [1..k -> alphabet] : k \in 0..n } : WellFormed(t) }

BooleanSymbols ==
    {" ", "Yes", "yes", "YES", "Y", "y", "no", "NO", "n", "Non", "non",
     "true", "True", "t", "false", "F", "1", "0", "oui", "maybe"}

CallNormalizeBoolean ==
    /\ fcall = "none"
    /\ \E s \in StringsOver(BooleanSymbols, MaxSymbols) :
         /\ fcall' = "normalize_boolean"
         /\ farg' = s
         /\ fret' = normalize_boolean(s)
    /\ UNCHANGED <<storeVars, batchVars, cleanVars>>

(***************************************************************************)
(* processors/normalizer.py: normalize_age_range                           *)
(***************************************************************************)
MaxAgeSymbols == 5   \* longest age range, in symbols

\* re.findall(r'\d+', value): the digit runs, in order
RECURSIVE FindNumbers(_)
FindNumbers(t) ==
    IF t = <<>> THEN <<>>
    ELSE IF IsNumber(Head(t)) THEN <<Head(t)>> \o FindNumbers(Tail(t))
    ELSE FindNumbers(Tail(t))

\* "c" in value, for a one-character c
Contains(t, c) == \E i \in 1..Len(t) : t[i] = c

\* {"min": min_age, "max": max_age}
AgeRange(min_age, max_age) ==
    Dict(<< <<<<"min">>, min_age>>, <<<<"max">>, max_age>> >>)

normalize_age_range_DashFirst(value) ==
    LET numbers == FindNumbers(value)
    IN  IF Contains(value, "-") /\ Len(numbers) >= 2
        THEN AgeRange(Num(TokenValue[numbers[1]]), Num(TokenValue[numbers[2]]))
        ELSE IF Contains(value, "+") /\ numbers # <<>>
        THEN AgeRange(Num(TokenValue[numbers[1]]), None)
        ELSE AgeRange(None, None)

\* normalize_age_range(value) for a string argument
normalize_age_range(value) ==
    IF value = <<>> THEN AgeRange(None, None)
    ELSE LET numbers == FindNumbers(value)
         IN  IF Contains(value, "+") /\ numbers # <<>>
             THEN AgeRange(Num(TokenValue[numbers[1]]), None)
             ELSE IF Contains(value, "-") /\ Len(numbers) >= 2
             THEN AgeRange(Num(TokenValue[numbers[1]]),
                           Num(TokenValue[numbers[2]]))
             ELSE AgeRange(None, None)

AgeSymbols == {"18", "64", "65", "+", "-", " ", "years"}

CallNormalizeAgeRange ==
    /\ fcall = "none"
    /\ \E s \in StringsOver(AgeSymbols, MaxAgeSymbols) :
         /\ fcall' = "normalize_age_range"
         /\ farg' = s
         /\ fret' = normalize_age_range(s)
    /\ UNCHANGED <<storeVars, batchVars, cleanVars>>

(***************************************************************************)
(* processors/normalizer.py: the coercions and normalize_data              *)
(***************************************************************************)
MaxKeyParts == 2   \* words, joined by "_", a key name is made of

Float(t) == <<"float", t>>

\* normalize_string(value) for a string argument
normalize_string(value) ==
    IF value = <<>> THEN Str(value) ELSE Str(Strip(CollapseSpaces(value)))

\* int(value) succeeds on a digit run with an optional sign
IsInt(t) ==
    \/ Len(t) = 1 /\ IsNumber(t[1])
    \/ Len(t) = 2 /\ t[1] \in {"+", "-"} /\ IsNumber(t[2])
IntOf(t) ==
    IF Len(t) = 1 THEN TokenValue[t[1]]
    ELSE IF t[1] = "-" THEN 0 - TokenValue[t[2]] ELSE TokenValue[t[2]]

\* float(value) succeeds on digits with one point and an optional sign
IsUnsignedFloat(t) ==
    \/ Len(t) = 3 /\ IsNumber(t[1]) /\ t[2] = "." /\ IsNumber(t[3])
    \/ Len(t) = 2 /\ IsNumber(t[1]) /\ t[2] = "."
    \/ Len(t) = 2 /\ t[1] = "." /\ IsNumber(t[2])
IsFloat(t) ==
    \/ IsInt(t)
    \/ IsUnsignedFloat(t)
    \/ t # <<>> /\ t[1] \in {"+", "-"} /\ IsUnsignedFloat(Tail(t))

\* value.replace(',', '.')
ReplaceComma(t) == [i \in 1..Len(t) |-> IF t[i] = "," THEN "." ELSE t[i]]

\* normalize_number(value) for a string argument
normalize_number(value) ==
    IF value = <<>> THEN Str(value)
    ELSE IF IsInt(Strip(value)) THEN Num(IntOf(Strip(value)))
    ELSE IF IsFloat(ReplaceComma(Strip(value)))
         THEN Float(ReplaceComma(Strip(value)))
    ELSE Str(ReplaceComma(Strip(value)))

\* value.split(separator)
RECURSIVE Split(_, _)
Split(t, separator) ==
    IF ~ Contains(t, separator) THEN <<t>>
    ELSE LET i == CHOOSE j \in 1..Len(t) :
                      t[j] = separator /\ \A k \in 1..(j - 1) : t[k] # separator
         IN  <<SubSeq(t, 1, i - 1)>> \o Split(SubSeq(t, i + 1, Len(t)), separator)

\* [item for item in items if item]
RECURSIVE NonEmpty(_)
NonEmpty(items) ==
    IF items = <<>> THEN <<>>
    ELSE IF Head(items) = <<>> THEN NonEmpty(Tail(items))
    ELSE <<Head(items)>> \o NonEmpty(Tail(items))

\* normalize_list(value) for a string argument
normalize_list(value) ==
    IF value = <<>> THEN List(<<>>)
    ELSE LET parts == Split(value, ",")
             items == NonEmpty([i \in 1..Len(parts) |-> Strip(parts[i])])
         IN  List([i \in 1..Len(items) |-> Str(items[i])])

\* the entries of country_mapping over the words of the inputs
country_mapping ==
    << << <<"usa">>, <<"United", " ", "States">> >>,
       << <<"uk">>, <<"United", " ", "Kingdom">> >>,
       << <<"france">>, <<"France">> >>,
       << <<"germany">>, <<"Germany">> >> >>

\* a_dict.get(key, default) on a list of <<key, value>> entries
GetOr(entries, key, default) ==
    IF \E i \in 1..Len(entries) : entries[i][1] = key
    THEN entries[CHOOSE i \in 1..Len(entries) : entries[i][1] = key][2]
    ELSE default

\* normalize_country(value) for a string argument
normalize_country(value) ==
    IF value = <<>> THEN Str(value)
    ELSE Str(GetOr(country_mapping, Lower(Strip(value)), Strip(value)))

\* pat in t, for whole symbols
SubSeqOf(pat, t) ==
    \E i \in 0..(Len(t) - Len(pat)) : SubSeq(t, i + 1, i + Len(pat)) = pat

\* group(1).upper() of a run of letters that begins with [IViv]+
RomanPrefix == ("ii" :> "II") @@ ("II" :> "II") @@ ("iv" :> "IV")

\* re.search(r'Phase\s+([IViv]+)', value, re.IGNORECASE): the position of
\* the roman numeral of the leftmost match, 0 when there is none
PhaseMatch(t) ==
    LET hits == { j \in 3..Len(t) :
                    /\ t[j] \in DOMAIN RomanPrefix
                    /\ \E i \in 1..(j - 2) :
                          /\ Lower(<<t[i]>>) = <<"phase">>
                          /\ \A k \in (i + 1)..(j - 1) : IsSpace(t[k]) }
    IN  IF hits = {} THEN 0
        ELSE CHOOSE j \in hits : \A h \in hits : j <= h

phase_mapping ==
    << << <<"therapeutic", " ", "exploratory">>, <<"Phase", " ", "II">> >>,
       << <<"therapeutic", " ", "confirmatory">>, <<"Phase", " ", "III">> >>,
       << <<"first", " ", "in", " ", "human">>, <<"Phase", " ", "I">> >>,
       << <<"human", " ", "pharmacology">>, <<"Phase", " ", "I">> >>,
       << <<"bioequivalence", " ", "study">>, <<"Phase", " ", "I">> >> >>

\* the loop over phase_mapping.items(), from the i-th entry on
RECURSIVE MappedPhase(_, _)
MappedPhase(t, i) ==
    IF i > Len(phase_mapping) THEN t
    ELSE IF SubSeqOf(phase_mapping[i][1], Lower(t)) THEN phase_mapping[i][2]
    ELSE MappedPhase(t, i + 1)

\* normalize_trial_phase(value) for a string argument
normalize_trial_phase(value) ==
    IF value = <<>> THEN Str(value)
    ELSE LET v == Strip(value)
         IN  IF PhaseMatch(v) # 0
             THEN Str(<<"Phase", " ", RomanPrefix[v[PhaseMatch(v)]]>>)
             ELSE Str(MappedPhase(v, 1))

\* 'word' in key_lower: the word is one of the runs of letters of the
\* lower-cased key, or lies inside one
WordIn(word, key) ==
    \E i \in 1..Len(key) :
        \/ key[i] = word
        \/ <<key[i], word>> \in
               { <<"dates", "date">>, <<"update", "date">>,
                 <<"numbers", "number">> }

\* the branches of normalize_data for a string value under a key
NormalizeLeaf(key, value) ==
    LET key_lower == Lower(key)
    IN  IF WordIn("date", key_lower) THEN normalize_date(value)
        ELSE IF key_lower \in { <<"transition", "_", "trial">>,
                                <<"early", "_", "termination">> }
             THEN normalize_boolean(value)
        ELSE IF SubSeqOf(<<"age", "_", "range">>, key_lower)
             THEN normalize_age_range(value)
        ELSE IF WordIn("country", key_lower) THEN normalize_country(value)
        ELSE IF SubSeqOf(<<"trial", "_", "phase">>, key_lower)
             THEN normalize_trial_phase(value)
        ELSE IF WordIn("number", key_lower) THEN normalize_number(value)
        ELSE IF WordIn("locations", key_lower) /\ Contains(value, ",")
             THEN normalize_list(value)
        ELSE normalize_string(value)

\* normalize_data(data)
RECURSIVE normalize_data(_)
normalize_data(data) ==
    IF ~ IsDict(data) THEN data
    ELSE LET items == data[2]
             Normalized(key, value) ==
                 IF IsDict(value) THEN normalize_data(value)
                 ELSE IF IsList(value)
                 THEN List([j \in 1..Len(value[2]) |->
                              IF IsDict(value[2][j])
                              THEN normalize_data(value[2][j])
                              ELSE value[2][j]])
                 ELSE IF IsStr(value) THEN NormalizeLeaf(key, value[2])
                 ELSE value
         IN  Dict([i \in 1..Len(items) |->
                     <<items[i][1], Normalized(items[i][1], items[i][2])>>])

\* key names: up to n of these words joined by "_"
KeyParts ==
    { <<"date">>, <<"Update">>, <<"transition", "_", "trial">>,
      <<"early", "_", "termination">>, <<"age", "_", "range">>,
      <<"country">>, <<"trial", "_", "phase">>, <<"number">>,
      <<"locations">>, <<"title">> }
RECURSIVE KeyNames(_)
KeyNames(n) ==
    IF n = 1 THEN KeyParts
    ELSE KeyNames(n - 1)
         \cup { k \o <<"_">> \o p : k \in KeyNames(n - 1), p \in KeyParts }

\* string values that tell the coercions apart
LeafValues ==
    { <<"05", "/", "01", "/", "2020">>, <<" ", "Yes">>, <<"x", "+">>,
      <<"france">>, <<"phase", " ", "ii">>, <<"x", ",", " ", "y">>,
      <<"x", " ", " ", "y">>, <<>> }

\* the records handed to normalize_data: a string under a key, in a list
\* under a key, and the same one level down
RecordShapes == { "leaf", "in_list", "nested", "nested_in_list" }
NormalizerRecord(key, text, shape) ==
    LET Under(k, v) == Dict(<< <<k, v>> >>)
    IN  CASE shape = "leaf" -> Under(key, Str(text))
          [] shape = "in_list" -> Under(key, List(<<Str(text)>>))
          [] shape = "nested" -> Under(<<"summary">>, Under(key, Str(text)))
          [] shape = "nested_in_list" ->
                 Under(<<"summary">>, List(<<Under(key, Str(text))>>))

CallNormalizeData ==
    /\ fcall = "none"
    /\ \E key \in KeyNames(MaxKeyParts), text \in LeafValues,
          shape \in RecordShapes :
         LET r == NormalizerRecord(key, text, shape)
         IN  /\ fcall' = "normalize_data"
             /\ farg' = r
             /\ fret' = normalize_data(r)
    /\ UNCHANGED <<storeVars, batchVars, cleanVars>>

\* the strings handed to normalize_number: digits, separators, a unit
NumberSymbols == {"12", "05", ",", ".", " ", "-", "mg"}

CallNormalizeNumber ==
    /\ fcall = "none"
    /\ \E s \in StringsOver(NumberSymbols, MaxSymbols) :
         /\ fcall' = "normalize_number"
         /\ farg' = s
         /\ fret' = normalize_number(s)
    /\ UNCHANGED <<storeVars, batchVars, cleanVars>>

(***************************************************************************)
(* processors/validator.py                                                 *)
(***************************************************************************)
\* key in a_dict, a_dict[key], a_dict.get(key)
Has(a_dict, key) == \E i \in 1..Len(a_dict[2]) : a_dict[2][i][1] = key
Get(a_dict, key) ==
    a_dict[2][CHOOSE i \in 1..Len(a_dict[2]) : a_dict[2][i][1] = key][2]
GetOrNone(a_dict, key) == IF Has(a_dict, key) THEN Get(a_dict, key) ELSE None

\* the key names of a trial record
k_header == <<"header">>
k_summary == <<"summary">>
k_trial_information == <<"trial", "_", "information">>
k_locations == <<"locations">>
k_euct_number == <<"euct", "_", "number">>
k_protocol_code == <<"protocol", "_", "code">>
k_medical_condition == <<"medical", "_", "condition">>
k_trial_phase == <<"trial", "_", "phase">>
k_trial_duration == <<"trial", "_", "duration">>
k_estimated_recruitment_start ==
    <<"estimated", "_", "recruitment", "_", "start">>
k_estimated_end_date == <<"estimated", "_", "end", "_", "date">>
k_trial_details == <<"trial", "_", "details">>
k_trial_identifiers == <<"trial", "_", "identifiers">>
k_eu_trial_number == <<"eu", "_", "trial", "_", "number">>
k_countries == <<"countries">>
k_country == <<"country">>

\* VALIDATION['required_sections'] and VALIDATION['required_fields'], the
\* dotted paths already split
required_sections ==
    <<k_header, k_summary, k_trial_information, k_locations>>
required_fields ==
    << << <<k_header>>, <<k_euct_number>> >>,
       << <<k_summary, k_trial_information>>,
          <<k_medical_condition, k_trial_phase>> >> >>

\* the keys of a list that satisfy a test, as issues, in order
IssuesFor(keys, Failing(_), Issue(_)) ==
    LET failing == SelectSeq(keys, Failing)
    IN  [i \in 1..Len(failing) |-> Issue(failing[i])]

\* the walk along a dotted path: the value it ends at, or <<"invalid">>
\* when a part is missing
RECURSIVE Walk(_, _)
Walk(current_data, path_parts) ==
    IF path_parts = <<>> THEN current_data
    ELSE IF Has(current_data, Head(path_parts))
         THEN Walk(Get(current_data, Head(path_parts)), Tail(path_parts))
    ELSE <<"invalid">>

\* the issues of one entry of required_fields
FieldIssues(data, entry) ==
    LET found == Walk(data, entry[1])
    IN  IF found = <<"invalid">> THEN << <<"invalid_path", entry[1]>> >>
        ELSE LET Missing(field) == ~ Has(found, field)
                 Issue(field) == <<"missing_field", entry[1], field>>
             IN  IssuesFor(entry[2], Missing, Issue)

\* validate_required_sections(data)
validate_required_sections(data) ==
    LET Missing(section) == ~ Has(data, section)
        Issue(section) == <<"missing_section", section>>
    IN  IssuesFor(required_sections, Missing, Issue)
        \o FieldIssues(data, required_fields[1])
        \o FieldIssues(data, required_fields[2])

\* start_dt > end_dt
After(a, b) ==
    \/ a[2] > b[2]
    \/ a[2] = b[2] /\ a[3] > b[3]
    \/ a[2] = b[2] /\ a[3] = b[3] /\ a[4] > b[4]

iso_format == <<"%Y", "-", "%m", "-", "%d">>

\* validate_dates(data): the issues, or ValueError when strptime rejects a
\* string that is_date_valid accepted
validate_dates(data) ==
    IF ~ (Has(data, k_summary) /\ Has(Get(data, k_summary), k_trial_duration))
    THEN <<>>
    ELSE LET trial_duration == Get(Get(data, k_summary), k_trial_duration)
             start_date == GetOrNone(trial_duration, k_estimated_recruitment_start)
             end_date == GetOrNone(trial_duration, k_estimated_end_date)
         IN  IF ~ (/\ Truthy(start_date) /\ Truthy(end_date)
                   /\ is_date_valid(start_date[2])
                   /\ is_date_valid(end_date[2]))
             THEN <<>>
             ELSE IF Raised(strptime(start_date[2], iso_format)) THEN ValueError
             ELSE IF Raised(strptime(end_date[2], iso_format)) THEN ValueError
             ELSE IF After(strptime(start_date[2], iso_format),
                           strptime(end_date[2], iso_format))
                  THEN << <<"date_order", start_date, end_date>> >>
             ELSE <<>>

MismatchIssues_Unconditional(header, identifiers, header_key, key, name) ==
    IF Has(header, header_key) /\ Has(identifiers, key)
    THEN << <<name, Get(header, header_key), Get(identifiers, key)>> >>
    ELSE <<>>

\* the comparison of one field of the header with the same field of the
\* trial identifiers
MismatchIssues(header, identifiers, header_key, key, name) ==
    IF /\ Has(header, header_key) /\ Has(identifiers, key)
       /\ Get(header, header_key) # Get(identifiers, key)
    THEN << <<name, Get(header, header_key), Get(identifiers, key)>> >>
    ELSE <<>>

\* the issues on the identifiers of the header and of the trial details
IdentifierIssues(data) ==
    IF ~ (Has(data, k_header) /\ Has(data, k_trial_information)) THEN <<>>
    ELSE LET header == Get(data, k_header)
             trial_info == Get(data, k_trial_information)
         IN  IF ~ (/\ Has(trial_info, k_trial_details)
                   /\ Has(Get(trial_info, k_trial_details), k_trial_identifiers))
             THEN <<>>
             ELSE LET identifiers ==
                          Get(Get(trial_info, k_trial_details), k_trial_identifiers)
                  IN  MismatchIssues(header, identifiers, k_euct_number,
                                     k_eu_trial_number, "euct_mismatch")
                      \o MismatchIssues(header, identifiers, k_protocol_code,
                                        k_protocol_code, "protocol_mismatch")

\* the issues on the countries of the summary and of the locations
CountryIssues(data) ==
    IF ~ (/\ Has(data, k_summary)
          /\ Has(Get(data, k_summary), k_trial_information)
          /\ Has(Get(Get(data, k_summary), k_trial_information), k_locations))
    THEN <<>>
    ELSE IF ~ (Has(data, k_locations) /\ Has(Get(data, k_locations), k_countries))
    THEN <<>>
    ELSE LET summary_locations ==
                 Get(Get(Get(data, k_summary), k_trial_information), k_locations)[2]
             countries == Get(Get(data, k_locations), k_countries)[2]
             location_countries ==
                 [i \in 1..Len(countries) |-> Get(countries[i], k_country)]
             NotListed(country) == ~ InList(country, location_countries)
             Issue(country) == <<"country_missing", country>>
         IN  IssuesFor(summary_locations, NotListed, Issue)

\* validate_consistency(data)
validate_consistency(data) == IdentifierIssues(data) \o CountryIssues(data)

Report(valid, issues) == <<"report", valid, issues>>

validate_data_ShortCircuit(data) ==
    IF validate_required_sections(data) # <<>>
    THEN Report(FALSE, validate_required_sections(data))
    ELSE IF Raised(validate_dates(data)) THEN ValueError
    ELSE IF validate_dates(data) # <<>>
    THEN Report(FALSE, validate_dates(data))
    ELSE Report(validate_consistency(data) = <<>>, validate_consistency(data))

\* validate_data(data): load_schema finds no schema file and the schema step
\* adds nothing; an exception of a check is not caught
validate_data(data) ==
    LET section_issues == validate_required_sections(data)
        date_issues == validate_dates(data)
        consistency_issues == validate_consistency(data)
    IN  IF Raised(date_issues) THEN ValueError
        ELSE Report(/\ section_issues = <<>>
                    /\ date_issues = <<>>
                    /\ consistency_issues = <<>>,
                    section_issues \o date_issues \o consistency_issues)

\* the records of the pipeline before normalisation: every branch is
\* missing, empty or filled
Item(key, value) == << <<key, value>> >>
HeaderBranches ==
    { <<>>, Item(k_header, Dict(<<>>)),
      Item(k_header, Dict(Item(k_euct_number, Str(<<"E1">>)))),
      Item(k_header, Dict(Item(k_euct_number, Str(<<"E1">>))
                          \o Item(k_protocol_code, Str(<<"P1">>)))) }
IdentifierSets ==
    { <<>> } \cup
    { Item(k_eu_trial_number, Str(e)) \o p :
        e \in { <<"E1">>, <<"E2">> },
        p \in { <<>>, Item(k_protocol_code, Str(<<"P2", " ">>)) } }
TrialInformationBranches ==
    { <<>>, Item(k_trial_information, Dict(<<>>)),
      Item(k_trial_information, Dict(Item(k_trial_details, Dict(<<>>)))) }
    \cup { Item(k_trial_information,
                Dict(Item(k_trial_details,
                          Dict(Item(k_trial_identifiers, Dict(ids)))))) :
           ids \in IdentifierSets }
RawStartDates ==
    { <<"15", "/", "06", "/", "2021">>, <<"2021", "-", "06", "-", "05">>,
      <<"TBD">> }
RawEndDates ==
    { <<"05", "/", "01", "/", "2020">>, <<"15", "/", "01", "/", "2020">>,
      <<"05", "/", "06", "/", "2021">>, <<"TBD">> }
DurationBranches ==
    { <<>> } \cup
    { Item(k_trial_duration,
           Dict(Item(k_estimated_recruitment_start, Str(a))
                \o Item(k_estimated_end_date, Str(b)))) :
        a \in RawStartDates, b \in RawEndDates }
SummaryFacts ==
    { <<>>, Item(k_trial_information, Dict(Item(k_medical_condition, Str(<<"x">>)))) }
    \cup { Item(k_trial_information,
                Dict(Item(k_medical_condition, Str(<<"x">>))
                     \o Item(k_trial_phase, Str(<<"phase", " ", "ii">>))
                     \o l)) :
           l \in { <<>>,
                   Item(k_locations,
                        List(<<Str(<<"France">>), Str(<<"Germany">>)>>)) } }
SummaryBranches ==
    { <<>> } \cup
    { Item(k_summary, Dict(f \o t)) : f \in SummaryFacts, t \in DurationBranches }
LocationBranches ==
    { <<>>, Item(k_locations, Dict(<<>>)),
      Item(k_locations,
           Dict(Item(k_countries,
                     List(<<Dict(Item(k_country, Str(<<"france">>)))>>)))) }
RawRecords ==
    { Dict(h \o s \o t \o l) :
        h \in HeaderBranches, s \in SummaryBranches,
        t \in TrialInformationBranches, l \in LocationBranches }

\* validate_and_report is called with the result of normalize_data
CallValidateData ==
    /\ fcall = "none"
    /\ \E r \in RawRecords :
         LET normalized_data == normalize_data(r)
         IN  /\ fcall' = "validate_data"
             /\ farg' = normalized_data
             /\ fret' = validate_data(normalized_data)
    /\ UNCHANGED <<storeVars, batchVars, cleanVars>>

\* validate_consistency on the normalised records that differ in the
\* branches it reads
CallValidateConsistency ==
    /\ fcall = "none"
    /\ \E h \in HeaderBranches, t \in TrialInformationBranches,
          l \in LocationBranches,
          s \in { <<>>, Item(k_summary,
                             Dict(Item(k_trial_information,
                                       Dict(Item(k_locations,
                                                 List(<<Str(<<"France">>)>>)))))) } :
         LET normalized_data == normalize_data(Dict(h \o s \o t \o l))
         IN  /\ fcall' = "validate_consistency"
             /\ farg' = normalized_data
             /\ fret' = validate_consistency(normalized_data)
    /\ UNCHANGED <<storeVars, batchVars, cleanVars>>

(***************************************************************************)
(* utils/html_utils.py: extract_table                                      *)
(*                                                                         *)
(* A table element is <<"table", children>>, its children in document     *)
(* order: <<"thead", rows>>, <<"tbody", rows>> or <<"tr", cells>>; a row   *)
(* is a sequence of cells <<"th" | "td", text>>.  The lxml parser adds no  *)
(* tbody of its own.                                                       *)
(***************************************************************************)
MaxRows == 2   \* rows per part of a table

\* the rows of a table, in document order
RECURSIVE AllRows(_)
AllRows(children) ==
    IF children = <<>> THEN <<>>
    ELSE (IF Head(children)[1] = "tr" THEN <<Head(children)[2]>>
          ELSE Head(children)[2])
         \o AllRows(Tail(children))

\* element.find(name) among the children of the table: the rows of the
\* first thead or tbody, None when there is none
FindPart(children, name) ==
    IF \E i \in 1..Len(children) : children[i][1] = name
    THEN children[CHOOSE i \in 1..Len(children) :
                      /\ children[i][1] = name
                      /\ \A j \in 1..(i - 1) : children[j][1] # name]
    ELSE None

\* [c.text.strip() for c in row.find_all(tag)]
CellTexts(row, tag) ==
    LET cells == SelectSeq(row, LAMBDA cell : cell[1] = tag)
    IN  [i \in 1..Len(cells) |-> Strip(cells[i][2])]

\* the texts of the th cells of a sequence of rows
RECURSIVE HeaderTexts(_)
HeaderTexts(rows) ==
    IF rows = <<>> THEN <<>>
    ELSE CellTexts(Head(rows), "th") \o HeaderTexts(Tail(rows))

\* dict(zip(headers, cells)) for distinct headers
ZipRow(headers, cells) ==
    Dict([i \in 1..Len(headers) |-> <<headers[i], Str(cells[i])>>])

\* what extract_table returns and the warnings it logs
Extracted(rows, warnings) == <<"extracted", rows, warnings>>

\* the loop over tbody.find_all("tr"): the rows kept and the warnings logged
RECURSIVE BodyRows(_, _)
BodyRows(rows, headers) ==
    IF rows = <<>> THEN Extracted(<<>>, <<>>)
    ELSE LET cells == CellTexts(Head(rows), "td")
             rest == BodyRows(Tail(rows), headers)
         IN  IF Len(cells) = Len(headers)
             THEN Extracted(<<ZipRow(headers, cells)>> \o rest[2], rest[3])
             ELSE Extracted(rest[2], <<"cell_count">> \o rest[3])

\* extract_table(table_element) for a table element
extract_table(table_element) ==
    LET children == table_element[2]
        thead == FindPart(children, "thead")
        from_thead == IF IsNone(thead) THEN <<>> ELSE HeaderTexts(thead[2])
        first_row == AllRows(children)
        headers == IF from_thead # <<>> THEN from_thead
                   ELSE IF first_row = <<>> THEN <<>>
                   ELSE CellTexts(first_row[1], "th")
        tbody == FindPart(children, "tbody")
    IN  IF headers = <<>> THEN Extracted(<<>>, <<"no_header">>)
        ELSE IF IsNone(tbody) THEN Extracted(<<>>, <<>>)
        ELSE BodyRows(tbody[2], headers)

\* the tables handed to extract_table
TableRowSet ==
    { << <<"th", <<"A">>>>, <<"th", <<" ", "B">>>> >>,
      << <<"td", <<"1">>>>, <<"td", <<"2", " ">>>> >>,
      << <<"td", <<"1">>>> >>,
      << <<"td", <<"1">>>>, <<"td", <<"2">>>>, <<"td", <<"x">>>> >> }
RowsUpTo(n) == UNION { [1..k -> TableRowSet] : k \in 0..n }
Tables(n) ==
    { <<"table", head \o loose \o body>> :
        head \in { <<>>, << <<"thead", << << <<"th", <<"A">>>>,
                                             <<"th", <<"B">>>> >> >> >> >> },
        loose \in { [i \in 1..Len(rows) |-> <<"tr", rows[i]>>] :
                    rows \in RowsUpTo(n) },
        body \in { <<>> } \cup { << <<"tbody", rows>> >> : rows \in RowsUpTo(n) } }

CallExtractTable ==
    /\ fcall = "none"
    /\ \E t \in Tables(MaxRows) :
         /\ fcall' = "extract_table"
         /\ farg' = t
         /\ fret' = extract_table(t)
    /\ UNCHANGED <<storeVars, batchVars, cleanVars>>

(***************************************************************************)
(* extractors/locations.py: the heading of a country                       *)
(***************************************************************************)
MaxWords == 2   \* words in a country name or in a status

\* the number of spaces a string begins with
LeadingSpaces(t) == Len(t) - Len(SkipSpaces(t))

\* the positions of a "-" that (.+?)\s*-\s*(.+) can take as its dash when
\* \s+ has taken k symbols: one symbol at least before it, one after it
DashesAfter(t, k) == { p \in (k + 2)..(Len(t) - 1) : t[p] = "-" }

\* re.search(r'(\d+\.\d+\.\d+)\s+(.+?)\s*-\s*(.+)', country_title) on a
\* title that has digits in its section number only: the groups 2 and 3,
\* or None.  \s+ takes as many spaces as leave a match, (.+?) as few
\* symbols as possible, (.+) the rest of the line.
HeadingMatch(country_title) ==
    IF ~ (/\ Len(country_title) > 5
          /\ IsNumber(country_title[1]) /\ country_title[2] = "."
          /\ IsNumber(country_title[3]) /\ country_title[4] = "."
          /\ IsNumber(country_title[5]))
    THEN None
    ELSE LET t == SubSeq(country_title, 6, Len(country_title))
             usable == { k \in 1..LeadingSpaces(t) : DashesAfter(t, k) # {} }
         IN  IF usable = {} THEN None
             ELSE LET k == CHOOSE x \in usable : \A y \in usable : y <= x
                      p == CHOOSE x \in DashesAfter(t, k) :
                               \A y \in DashesAfter(t, k) : x <= y
                      e == CHOOSE x \in (k + 1)..(p - 1) :
                               /\ \A i \in (x + 1)..(p - 1) : IsSpace(t[i])
                               /\ \A y \in (k + 1)..(x - 1) :
                                     \E i \in (y + 1)..(p - 1) : ~ IsSpace(t[i])
                  IN  <<SubSeq(t, k + 1, e), SubSeq(t, p + 1, Len(t))>>

\* the entry extract_countries appends for one country heading, without the
\* planned subjects and the sites; None when the heading does not match
CountryEntry(country_title) ==
    LET match == HeadingMatch(Strip(country_title))
    IN  IF IsNone(match) THEN None
        ELSE Dict(<< <<k_country, Str(Strip(match[1]))>>,
                     <<<<"status">>, Str(Strip(match[2]))>> >>)

\* the words of n names joined by a space or a hyphen
RECURSIVE Phrases(_, _)
Phrases(words, n) ==
    IF n = 1 THEN { <<w>> : w \in words }
    ELSE Phrases(words, n - 1)
         \cup { ph \o <<j, w>> : ph \in Phrases(words, n - 1),
                                 j \in {" ", "-"}, w \in words }
SectionNumber == <<"1", ".", "12", ".", "1">>
CountryNames(n) == Phrases({"France", "Guinea", "Bissau"}, n)
StatusTexts(n) == Phrases({"Ongoing", "Ended"}, n)
HeadingSeparators == { <<" ", "-", " ">>, <<" ", " ", "-", " ">> }

\* headings of the form section number, country name, dash, status
CountryHeading(name, sep, status) ==
    SectionNumber \o <<" ">> \o name \o sep \o status

CallCountryEntry ==
    /\ fcall = "none"
    /\ \E name \in CountryNames(MaxWords), status \in StatusTexts(MaxWords),
          sep \in HeadingSeparators :
         /\ fcall' = "extract_countries"
         /\ farg' = CountryHeading(name, sep, status)
         /\ fret' = CountryEntry(CountryHeading(name, sep, status))
    /\ UNCHANGED <<storeVars, batchVars, cleanVars>>

(***************************************************************************)
(* extractors/header.py: HeaderExtractor.extract                           *)
(*                                                                         *)
(* Of a document the header extractor reads the value elements that follow *)
(* the labels 'Title:', 'EUCT number:' and 'Protocol code:' and, in the    *)
(* 'Trial identifiers' section, the labels 'EU trial number' and 'Full     *)
(* title'.  Each is None (no such element) or the text of the element.     *)
(***************************************************************************)
k_title == <<"title">>
\* the placeholder "Non specifie" (written with accents in the source)
not_specified == <<"Non", " ", "specifie">>

\* extract_with_selector(container, selector): select_element gives None
\* for a missing element and extract_text turns None into ""
extract_with_selector(element) ==
    IF IsNone(element) THEN <<>> ELSE Strip(element[2])

\* the fallback on the 'Trial identifiers' section when the value found so
\* far is empty: the text after the label, when the section and the label
\* exist
FromIdentifiers(value, section, label) ==
    IF value # <<>> THEN value
    ELSE IF IsNone(section) THEN value
    ELSE IF IsNone(Get(section, label)) THEN value
    ELSE Strip(Get(section, label)[2])

\* value or the placeholder
OrNotSpecified(value) == IF value = <<>> THEN not_specified ELSE value

\* the labels of the 'Trial identifiers' section
k_full_title == <<"Full", " ", "title">>
k_identifiers == <<"Trial", " ", "identifiers">>

\* HeaderExtractor.extract() on a parsed document
HeaderExtract(doc) ==
    LET title == FromIdentifiers(extract_with_selector(Get(doc, k_title)),
                                 Get(doc, k_identifiers), k_full_title)
        euct_number ==
            FromIdentifiers(extract_with_selector(Get(doc, k_euct_number)),
                            Get(doc, k_identifiers), k_eu_trial_number)
        protocol_code == extract_with_selector(Get(doc, k_protocol_code))
    IN  Dict(<< <<k_title, Str(OrNotSpecified(title))>>,
                <<k_euct_number, Str(OrNotSpecified(euct_number))>>,
                <<k_protocol_code, Str(OrNotSpecified(protocol_code))>> >>)

\* the documents: every element is missing, empty or filled
Elements == { None, Str(<<>>), Str(<<" ", "E1">>) }
IdentifierSections ==
    { None } \cup
    { Dict(<< <<k_full_title, t>>, <<k_eu_trial_number, e>> >>) :
        t \in Elements, e \in Elements }
HeaderDocuments ==
    { Dict(<< <<k_title, t>>, <<k_euct_number, e>>, <<k_protocol_code, p>>,
              <<k_identifiers, s>> >>) :
        t \in Elements, e \in Elements, p \in Elements,
        s \in IdentifierSections }

CallHeaderExtract ==
    /\ fcall = "none"
    /\ \E doc \in HeaderDocuments :
         /\ fcall' = "HeaderExtractor.extract"
         /\ farg' = doc
         /\ fret' = HeaderExtract(doc)
    /\ UNCHANGED <<storeVars, batchVars, cleanVars>>

(***************************************************************************)
(* extractors/locations.py: the countries of a document and their sites    *)
(***************************************************************************)
MaxElements == 3   \* headings and content blocks in a document
MaxSites == 2      \* h4 in a content block

\* The elements of a document that extract_countries and extract_sites look
\* at, in document order from the first country heading to the end of the
\* document: an h3 of the 'div#locations > div > h3' selection with its
\* text, or a div of class 'content' with the texts of the h4 below it.
H3(title) == <<"h3", title>>
ContentDiv(site_titles) == <<"content", site_titles>>

\* site_title.split(": ")[1] if ": " in site_title else site_title
SiteName(site_title) ==
    LET cuts == { i \in 1..(Len(site_title) - 1) :
                    site_title[i] = ":" /\ site_title[i + 1] = " " }
    IN  IF cuts = {} THEN site_title
        ELSE LET first == CHOOSE i \in cuts : \A j \in cuts : i <= j
                 rest == { j \in cuts : j > first + 1 }
                 last == IF rest = {} THEN Len(site_title) + 1
                         ELSE CHOOSE i \in rest : \A j \in rest : i <= j
             IN  SubSeq(site_title, first + 2, last - 1)

\* the entries extract_sites appends for the h4 of a content block (of the
\* fields of a site the name only: the others are read from the parent of
\* the h4 and take no part in choosing the block)
SiteEntries(site_sections) ==
    List([k \in 1..Len(site_sections) |->
            Dict(Item(<<"name">>, Str(SiteName(site_sections[k]))))])

\* country_section.find_next("div", class_="content") for the heading at
\* position i: the position of the first div of class 'content' that comes
\* after the heading in document order, 0 when there is none
find_next(elements, i) ==
    LET later == { j \in (i + 1)..Len(elements) : elements[j][1] = "content" }
    IN  IF later = {} THEN 0
        ELSE CHOOSE j \in later : \A k \in later : j <= k

\* extract_sites(country_section, selectors) for the heading at position i
extract_sites(elements, i) ==
    LET next_element == find_next(elements, i)
        site_sections == IF next_element # 0 THEN elements[next_element][2]
                         ELSE <<>>
    IN  SiteEntries(site_sections)

\* the loop of extract_countries from position i on
RECURSIVE CountriesFrom(_, _)
CountriesFrom(elements, i) ==
    IF i > Len(elements) THEN <<>>
    ELSE IF elements[i][1] = "h3" /\ ~ IsNone(CountryEntry(elements[i][2]))
    THEN << Dict(CountryEntry(elements[i][2])[2]
                 \o Item(<<"sites">>, extract_sites(elements, i))) >>
         \o CountriesFrom(elements, i + 1)
    ELSE CountriesFrom(elements, i + 1)

\* extract_countries(locations_section)
extract_countries(elements) == List(CountriesFrom(elements, 1))

SiteTitles == { <<"Site", ":", " ", "Alpha">>, <<"Beta">> }
DocumentElements ==
    { H3(CountryHeading(name, <<" ", "-", " ">>, <<"Ongoing">>)) :
        name \in CountryNames(1) }
    \cup { ContentDiv(titles) : titles \in UNION { [1..k -> SiteTitles] : k \in 0..MaxSites } }

SectionsUpTo(n) == UNION { [1..k -> DocumentElements] : k \in 1..n }

CallExtractCountries ==
    /\ fcall = "none"
    /\ \E elements \in SectionsUpTo(MaxElements) :
         /\ elements[1][1] = "h3"
         /\ fcall' = "LocationsExtractor.extract_countries"
         /\ farg' = <<"document", elements>>
         /\ fret' = extract_countries(elements)
    /\ UNCHANGED <<storeVars, batchVars, cleanVars>>

(***************************************************************************)
(* main.py: process_file on one document, as far as validation sees it:    *)
(* extract_data, then process_data (clean_and_standardize, normalize_data;  *)
(* the '_storage_info' key it adds is read by no check), then              *)
(* validate_and_report.                                                    *)
(***************************************************************************)
\* what validate_data returns for the record extract_data built
Pipeline(data) == validate_data(normalize_data(clean_and_standardize(data)))

\* what the other extractors give: nothing at all, or every required
\* section and field
OtherSections ==
    { <<>>,
      Item(k_summary,
           Dict(Item(k_trial_information,
                     Dict(Item(k_medical_condition, Str(<<"x">>))
                          \o Item(k_trial_phase, Str(<<"Phase", " ", "II">>))))))
      \o Item(k_trial_information,
              Dict(Item(k_trial_details,
                        Dict(Item(k_trial_identifiers,
                                  Dict(Item(k_protocol_code, Str(<<"E1">>))))))))
      \o Item(k_locations,
              Dict(Item(k_countries,
                        List(<<Dict(Item(k_country, Str(<<"France">>)))>>)))) }

\* process_file on a document whose header block is doc
CallPipelineHeader ==
    /\ fcall = "none"
    /\ \E doc \in HeaderDocuments, rest \in OtherSections :
         /\ fcall' = "process_file"
         /\ farg' = doc
         /\ fret' = Pipeline(Dict(Item(k_header, HeaderExtract(doc)) \o rest))
    /\ UNCHANGED <<storeVars, batchVars, cleanVars>>

MaxCountries == 2   \* participating countries of a document

\* trial_info["locations"] as extract_trial_information builds it from the
\* text after the 'Locations' label
SummaryLocations(locations_text) ==
    IF locations_text = <<>> THEN List(<<>>)
    ELSE LET parts == Split(locations_text, ",")
         IN  List([i \in 1..Len(parts) |-> Str(Strip(parts[i]))])

\* the same names as a comma-separated text and as country headings, each
\* heading followed by its content block
RECURSIVE LocationsText(_)
LocationsText(names) ==
    IF Len(names) = 1 THEN names[1]
    ELSE names[1] \o <<",", " ">> \o LocationsText(Tail(names))
RECURSIVE CountrySections(_)
CountrySections(names) ==
    IF names = <<>> THEN <<>>
    ELSE << H3(CountryHeading(names[1], <<" ", "-", " ">>, <<"Ongoing">>)),
            ContentDiv(<< <<"Site", ":", " ", "Alpha">> >>) >>
         \o CountrySections(Tail(names))

ParticipatingCountries == { <<"France">>, <<"Guinea">>, <<"UK">> }
CountryLists(n) == UNION { [1..k -> ParticipatingCountries] : k \in 1..n }

\* process_file on a document that names the countries in names in its
\* summary and in its country headings
CallPipelineCountries ==
    /\ fcall = "none"
    /\ \E names \in CountryLists(MaxCountries) :
         /\ fcall' = "process_file(countries)"
         /\ farg' = <<"countries", names>>
         /\ fret' = Pipeline(Dict(
                Item(k_summary,
                     Dict(Item(k_trial_information,
                               Dict(Item(k_locations,
                                         SummaryLocations(LocationsText(names)))))))
                \o Item(k_locations,
                        Dict(Item(k_countries,
                                  extract_countries(CountrySections(names)))))))
    /\ UNCHANGED <<storeVars, batchVars, cleanVars>>

(***************************************************************************)
(* storage/mongodb_storage.py: bulk_insert_trials                          *)
(***************************************************************************)
MaxBatch == 2   \* records in the list given to bulk_insert_trials

DUPLICATE_KEY == 11000
OtherCode == 121    \* a write error that is not a duplicate key

\* the records of a bulk call: a header with or without the identifier
BulkRecords == { MkRecord(TRUE, h, FALSE, [summary |-> "v1"]) : h \in HeaderVals }
BulkLists == UNION { [1..m -> BulkRecords] : m \in 0..MaxBatch }

\* the documents prepared from trials_data: a copy of each record with its
\* metadata; source_files[i] if source_files and i < len(source_files)
Documents(trials_data, source_files, now) ==
    [ i \in 1..Len(trials_data) |->
        NewDocument(trials_data[i],
                    IF i <= Len(source_files) THEN source_files[i] ELSE Absent,
                    now + 2 * (i - 1)) ]

Results(success, failed, duplicates) ==
    [success |-> success, failed |-> failed, duplicates |-> duplicates]

\* the number of write errors with, or without, the given code
WithCode(writeErrors, code, same) ==
    Cardinality({ i \in 1..Len(writeErrors) :
                    (writeErrors[i] = code) = same })

\* results once insert_many has returned or has raised BulkWriteError
InsertManyResults_AllInserted(b) ==
    Results(Len(b.documents),
            WithCode(b.writeErrors, DUPLICATE_KEY, FALSE),
            WithCode(b.writeErrors, DUPLICATE_KEY, TRUE))
InsertManyResults(b) ==
    IF b.writeErrors = <<>>
    THEN Results(Len(b.documents), 0, 0)
    ELSE Results(b.nInserted,
                 WithCode(b.writeErrors, DUPLICATE_KEY, FALSE),
                 WithCode(b.writeErrors, DUPLICATE_KEY, TRUE))

\* bulk_insert_trials is entered: without a connection or without records
\* it returns the zero counts at once, otherwise the documents are prepared
BeginBulk(c) ==
    /\ spc[c] = "idle"
    /\ \E trials_data \in BulkLists :
         LET source_files == <<SourceOf(c)>> IN
         IF sconn[c] # "connected" \/ trials_data = <<>>
         THEN /\ bulk' = [bulk EXCEPT ![c] =
                            [NoBulk EXCEPT !.is_connected =
                                               (sconn[c] = "connected"),
                                           !.trials_data = trials_data,
                                           !.results = Results(0, 0, 0)]]
              /\ spc' = [spc EXCEPT ![c] = "done"]
              /\ UNCHANGED clock
         ELSE /\ bulk' = [bulk EXCEPT ![c] =
                            [NoBulk EXCEPT !.is_connected = TRUE,
                                           !.trials_data = trials_data,
                                           !.documents =
                                               Documents(trials_data,
                                                         source_files, clock)]]
              /\ spc' = [spc EXCEPT ![c] = "insert_many"]
              /\ clock' = clock + 2 * Len(trials_data)
    /\ UNCHANGED <<coll, uniqueIndex, sconn, tdata, sret, sinfo>>

\* the next document of the bulk_insert_trials call of c
Attempted(b) == b.nInserted + Len(b.writeErrors)
NextDocument(c) == bulk[c].documents[Attempted(bulk[c]) + 1]

\* insert_many(documents, ordered=False): the server takes the next
\* document; it is inserted, or it is refused as a duplicate key and the
\* server goes on with the rest
InsertManyNext(c) ==
    /\ spc[c] = "insert_many"
    /\ Attempted(bulk[c]) < Len(bulk[c].documents)
    /\ IF DuplicateKey(coll, uniqueIndex, NextDocument(c).body)
       THEN /\ bulk' = [bulk EXCEPT ![c].writeErrors = Append(@, DUPLICATE_KEY)]
            /\ UNCHANGED coll
       ELSE /\ bulk' = [bulk EXCEPT ![c].nInserted = @ + 1]
            /\ coll' = Append(coll, NextDocument(c))
    /\ UNCHANGED <<uniqueIndex, clock, sconn, spc, tdata, sret, sinfo>>

\* the server refuses the next document with another write error
InsertManyRefused(c) ==
    /\ spc[c] = "insert_many"
    /\ Attempted(bulk[c]) < Len(bulk[c].documents)
    /\ bulk' = [bulk EXCEPT ![c].writeErrors = Append(@, OtherCode)]
    /\ UNCHANGED <<coll, uniqueIndex, clock, sconn, spc, tdata, sret, sinfo>>

\* insert_many returns, or raises BulkWriteError with the details
InsertManyDone(c) ==
    /\ spc[c] = "insert_many"
    /\ Attempted(bulk[c]) = Len(bulk[c].documents)
    /\ bulk' = [bulk EXCEPT ![c].results = InsertManyResults(bulk[c])]
    /\ spc' = [spc EXCEPT ![c] = "done"]
    /\ UNCHANGED <<coll, uniqueIndex, clock, sconn, tdata, sret, sinfo>>

\* insert_many raises another exception (network error, timeout), with the
\* documents the server has taken so far left as they are
InsertManyError(c) ==
    /\ spc[c] = "insert_many"
    /\ bulk' = [bulk EXCEPT ![c].results =
                   Results(0, Len(bulk[c].documents), 0)]
    /\ spc' = [spc EXCEPT ![c] = "done"]
    /\ UNCHANGED <<coll, uniqueIndex, clock, sconn, tdata, sret, sinfo>>

(***************************************************************************)
(* SpecBulk: one client inserts a list of records while another client     *)
(* saves a record to the same collection                                   *)
(***************************************************************************)
BulkWriter == 1
Saver == 2
BulkClients == {BulkWriter, Saver}

InitBulk == InitStorage(BulkClients) /\ IdleBatch /\ IdleCleaner /\ IdlePure

NextBulk ==
    /\ UNCHANGED <<batchVars, cleanVars, pureVars>>
    /\ \/ /\ UNCHANGED bulk
          /\ \E w \in BulkClients :
               \/ ConnectOk(w)
               \/ ConnectFail(w)
               \/ InsertOne(w)
               \/ InsertError(w)
               \/ UpdateNoKey(w)
               \/ UpdateOne(w)
               \/ UpdateError(w)
       \/ UNCHANGED bulk /\ WriterSave(Saver)
       \/ BeginBulk(BulkWriter)
       \/ InsertManyNext(BulkWriter)
       \/ InsertManyRefused(BulkWriter)
       \/ InsertManyDone(BulkWriter)
       \/ InsertManyError(BulkWriter)

SpecBulk == InitBulk /\ [][NextBulk]_vars

(***************************************************************************)
(* SpecPure: one call of one library function                              *)
(***************************************************************************)
InitPure == InitStorage({}) /\ IdleBatch /\ IdleCleaner /\ IdlePure

NextPure ==
    \/ CallNormalizeDate
    \/ CallNormalizeBoolean
    \/ CallNormalizeAgeRange
    \/ CallNormalizeData
    \/ CallNormalizeNumber
    \/ CallValidateData
    \/ CallValidateConsistency
    \/ CallExtractTable
    \/ CallCountryEntry
    \/ CallExtractCountries
    \/ CallHeaderExtract
    \/ CallPipelineHeader
    \/ CallPipelineCountries

SpecPure == InitPure /\ [][NextPure]_vars

(***************************************************************************)
(* Claims on the library functions                                         *)
(***************************************************************************)
\* normalize_date reached its last line: dateutil and every configured
\* format rejected the string
TotalFailure(date_str) ==
    /\ Strip(date_str) # <<>>
    /\ LET cleaned == Strip(CollapseSpaces(BlankNonDate(Strip(date_str))))
       IN  /\ Raised(dateutil_parse(cleaned))
           /\ Raised(FirstFormat(cleaned, 1))

\* C15 (as stated): for every date string that neither the permissive
\* day-first parse nor any configured format can interpret, normalize_date
\* returns the original input string unchanged and does not raise.
C15_FailureReturnsOriginal ==
    (fcall = "normalize_date" /\ TotalFailure(farg))
        => (~ Raised(fret) /\ fret = Str(farg))

\* C16: for every string s, normalize_boolean(s) is true when the trimmed,
\* lower-cased s is in the configured true-set, false when it is in the
\* configured false-set, and None (the unknown sentinel) for every other
\* string.
C16_BooleanBySets ==
    fcall = "normalize_boolean" =>
        LET s == Lower(Strip(farg))
        IN  /\ InList(s, boolean_true_values) => fret = Bool(TRUE)
            /\ InList(s, boolean_false_values) => fret = Bool(FALSE)
            /\ (~ InList(s, boolean_true_values)
                /\ ~ InList(s, boolean_false_values)) => fret = None

\* a padded, capitalised member of the true-set was normalised
C16_Witness ==
    /\ fcall = "normalize_boolean"
    /\ farg = <<" ", "Yes", " ">>
    /\ fret = Bool(TRUE)

\* the first and the second number embedded in a string, None when missing
NumberAt(t, i) ==
    IF Len(FindNumbers(t)) >= i THEN Num(TokenValue[FindNumbers(t)[i]])
    ELSE None

\* C17: for every string value, normalize_age_range returns
\* {min: first number, max: null} when the value contains '+',
\* {min: first number, max: second number} when it contains '-' and at
\* least two embedded numbers, and {min: null, max: null} otherwise (the
\* rules taken in this order, the first number of a value without numbers
\* being null); '65+ years' gives {65, null}, '18-64 years' gives {18, 64}.
C17_AgeRangeRules ==
    /\ fcall = "normalize_age_range" =>
        IF Contains(farg, "+")
        THEN fret = AgeRange(NumberAt(farg, 1), None)
        ELSE IF Contains(farg, "-") /\ Len(FindNumbers(farg)) >= 2
        THEN fret = AgeRange(NumberAt(farg, 1), NumberAt(farg, 2))
        ELSE fret = AgeRange(None, None)
    /\ normalize_age_range(<<"65", "+", " ", "years">>)
           = AgeRange(Num(65), None)
    /\ normalize_age_range(<<"18", "-", "64", " ", "years">>)
           = AgeRange(Num(18), Num(64))

\* a value with '+', '-' and two numbers was normalised by the '+' rule
C17_Witness ==
    /\ fcall = "normalize_age_range"
    /\ farg = <<"18", "-", "64", "+">>
    /\ fret = AgeRange(Num(18), None)

\* a value in which every string leaf, the items of lists included, is
\* replaced by what the first matching rule makes of it; a list item goes by
\* the key of its list
RECURSIVE CoerceLeaves(_, _)
CoerceLeaves(key, value) ==
    IF IsDict(value)
    THEN Dict([i \in 1..Len(value[2]) |->
                 <<value[2][i][1],
                   CoerceLeaves(value[2][i][1], value[2][i][2])>>])
    ELSE IF IsList(value)
    THEN List([i \in 1..Len(value[2]) |-> CoerceLeaves(key, value[2][i])])
    ELSE IF IsStr(value) THEN NormalizeLeaf(key, value[2])
    ELSE value

\* C14 (as stated): for every string leaf, normalize_data picks exactly one
\* coercion by the first matching rule on the key name, in the order date,
\* boolean, age range, country, phase, number, comma-split list, and
\* whitespace canonicalisation otherwise.
C14_EveryStringLeafCoerced ==
    fcall = "normalize_data" => fret = CoerceLeaves(<<>>, farg)

\* validate_data returned a report
Returned_Report(r) == r[1] = "report"

\* C11: when validate_data returns, valid is true if and only if the
\* required-section/required-field check, the date-ordering check and the
\* cross-branch consistency check all produce zero issues, and the returned
\* issue list is the concatenation of the issues of all checks: a failing
\* check never suppresses the issues of a later check.
C11_ValidIffNoIssues ==
    (fcall = "validate_data" /\ Returned_Report(fret)) =>
        /\ fret[2] = (/\ validate_required_sections(farg) = <<>>
                      /\ validate_dates(farg) = <<>>
                      /\ validate_consistency(farg) = <<>>)
        /\ fret[3] = validate_required_sections(farg)
                     \o validate_dates(farg)
                     \o validate_consistency(farg)

\* all three checks found issues and the report holds them all
C11_Witness ==
    /\ fcall = "validate_data"
    /\ Returned_Report(fret)
    /\ validate_required_sections(farg) # <<>>
    /\ validate_dates(farg) # <<>>
    /\ validate_consistency(farg) # <<>>
    /\ fret[2] = FALSE
    /\ Len(fret[3]) = Len(validate_required_sections(farg))
                      + Len(validate_dates(farg))
                      + Len(validate_consistency(farg))

\* the value at the end of a path of keys, None when a key is missing
RECURSIVE ValueAt(_, _)
ValueAt(value, path) ==
    IF path = <<>> THEN value
    ELSE IF IsDict(value) /\ Has(value, Head(path))
         THEN ValueAt(Get(value, Head(path)), Tail(path))
    ELSE None

HeaderEuct(data) == ValueAt(data, <<k_header, k_euct_number>>)
DetailsEuct(data) ==
    ValueAt(data, <<k_trial_information, k_trial_details,
                    k_trial_identifiers, k_eu_trial_number>>)
EuctIssues(issues) ==
    SelectSeq(issues, LAMBDA issue : issue[1] = "euct_mismatch")

\* C12: for every record in which header.euct_number and
\* trial_information.trial_details.trial_identifiers.eu_trial_number are
\* both present and differ, validation reports exactly one issue for that
\* mismatch, and the issue names both values; when they are equal or one is
\* absent, no such issue is reported.
C12_OneIssuePerEuctMismatch ==
    fcall = "validate_consistency" =>
        IF /\ ~ IsNone(HeaderEuct(farg)) /\ ~ IsNone(DetailsEuct(farg))
           /\ HeaderEuct(farg) # DetailsEuct(farg)
        THEN EuctIssues(fret)
               = << <<"euct_mismatch", HeaderEuct(farg), DetailsEuct(farg)>> >>
        ELSE EuctIssues(fret) = <<>>

\* a record with two different identifiers got its issue
C12_Witness ==
    /\ fcall = "validate_consistency"
    /\ HeaderEuct(farg) = Str(<<"E1">>)
    /\ DetailsEuct(farg) = Str(<<"E2">>)
    /\ <<"euct_mismatch", Str(<<"E1">>), Str(<<"E2">>)>> \in Range(fret)

\* the two dates of summary.trial_duration
StartDate(data) ==
    ValueAt(data, <<k_summary, k_trial_duration, k_estimated_recruitment_start>>)
EndDate(data) ==
    ValueAt(data, <<k_summary, k_trial_duration, k_estimated_end_date>>)

\* a string that the date parsing interprets as a calendar date, and the
\* date it stands for: an ISO string is read as it is written
ParsesAsDate(v) == IsStr(v) /\ Strip(v[2]) # <<>> /\ ~ TotalFailure(v[2])
ParsedDate(v) ==
    LET cleaned == Strip(CollapseSpaces(BlankNonDate(Strip(v[2]))))
    IN  IF ~ Raised(strptime(cleaned, iso_format))
        THEN strptime(cleaned, iso_format)
        ELSE IF ~ Raised(dateutil_parse(cleaned)) THEN dateutil_parse(cleaned)
        ELSE FirstFormat(cleaned, 1)

HasDateIssue(r) ==
    Returned_Report(r) /\ \E i \in 1..Len(r[3]) : r[3][i][1] = "date_order"

\* C13 (as stated): for a record produced by the normalisation stage,
\* validation reports a date-ordering issue exactly when
\* estimated_recruitment_start and estimated_end_date of
\* summary.trial_duration both parse as valid dates and the start is after
\* the end; when either value does not parse as a valid date the check is
\* skipped and adds no issue.
C13_DateOrderChecked ==
    fcall = "validate_data" =>
        (HasDateIssue(fret) <=>
            /\ ParsesAsDate(StartDate(farg))
            /\ ParsesAsDate(EndDate(farg))
            /\ After(ParsedDate(StartDate(farg)), ParsedDate(EndDate(farg))))

\* the texts of all cells of a row
AllCellTexts(row) == [i \in 1..Len(row) |-> Strip(row[i][2])]

\* the data rows that have as many cells as the header row, as mappings
\* from the header's columns, in document order
RECURSIVE WellFormedRows(_, _)
WellFormedRows(rows, header) ==
    IF rows = <<>> THEN <<>>
    ELSE (IF Len(Head(rows)) = Len(header)
          THEN <<ZipRow(header, AllCellTexts(Head(rows)))>> ELSE <<>>)
         \o WellFormedRows(Tail(rows), header)

\* C18 (as stated): for every table, extract_table treats the first row as
\* the header and returns, in document order, exactly the data rows whose
\* cell count equals the header's column count; every other data row is
\* dropped with a logged warning, and every returned row has exactly the
\* header's columns as its keys.
C18_FirstRowIsHeader ==
    (fcall = "extract_table" /\ AllRows(farg[2]) # <<>>) =>
        LET header == AllCellTexts(AllRows(farg[2])[1])
            data_rows == Tail(AllRows(farg[2]))
        IN  /\ fret[2] = WellFormedRows(data_rows, header)
            /\ Len(fret[3]) >= Len(data_rows) - Len(fret[2])

\* the position of the dash of a heading: the first "-" that has a space on
\* both sides
HeadingDash(t) ==
    CHOOSE p \in 2..(Len(t) - 1) :
        /\ t[p] = "-" /\ IsSpace(t[p - 1]) /\ IsSpace(t[p + 1])
        /\ \A q \in 2..(p - 1) :
              ~ (t[q] = "-" /\ IsSpace(t[q - 1]) /\ IsSpace(t[q + 1]))

\* C19 (as stated): for every country heading of the form sequence-number,
\* country name, dash, status, the locations extractor yields a country
\* entry whose country is the full country name and whose status is the
\* full status text.
C19_HeadingSplitAtDash ==
    fcall = "extract_countries" =>
        /\ ~ IsNone(fret)
        /\ Get(fret, k_country)
             = Str(Strip(SubSeq(farg, 6, HeadingDash(farg) - 1)))
        /\ Get(fret, <<"status">>)
             = Str(Strip(SubSeq(farg, HeadingDash(farg) + 1, Len(farg))))

\* the header field has no text in the document, neither after its own
\* label nor, for a field with a fallback, in the 'Trial identifiers'
\* section
Unresolved(doc, key, labels) ==
    /\ extract_with_selector(Get(doc, key)) = <<>>
    /\ \A label \in labels :
          \/ IsNone(Get(doc, k_identifiers))
          \/ extract_with_selector(Get(Get(doc, k_identifiers), label)) = <<>>

\* C20 (as stated): for every document in which an optional field is
\* missing, the extractor returns without raising and every unresolved leaf
\* of the returned branch is an empty string, never null and never another
\* placeholder value.
C20_MissingFieldIsEmpty ==
    fcall = "HeaderExtractor.extract" =>
        /\ IsDict(fret)
        /\ Unresolved(farg, k_title, {k_full_title})
              => Get(fret, k_title) = Str(<<>>)
        /\ Unresolved(farg, k_euct_number, {k_eu_trial_number})
              => Get(fret, k_euct_number) = Str(<<>>)
        /\ Unresolved(farg, k_protocol_code, {})
              => Get(fret, k_protocol_code) = Str(<<>>)

\* ---------------------------------------------------------------------------
\* C29  For every document that names each participating country with the
\* same spelling in the summary's location list and in the detailed country
\* headings, the full pipeline (extract, clean, normalize, validate) reports
\* no summary-versus-detail country inconsistency.
\* ---------------------------------------------------------------------------
C29_SameSpellingIsConsistent ==
    fcall = "process_file(countries)" =>
        /\ Returned_Report(fret)
        /\ \A i \in 1..Len(fret[3]) : fret[3][i][1] # "country_missing"

\* ---------------------------------------------------------------------------
\* C27  For every flat document-order sequence of country headings and
\* content blocks, each country entry receives only the site entries of its
\* own content block: no site is attributed to two countries, and a country
\* heading that has no content block of its own gets an empty site sequence
\* rather than the sites of the following country.
\* ---------------------------------------------------------------------------
HeadingsUpTo(elements, i) ==
    Cardinality({ j \in 1..i : elements[j][1] = "h3" })

\* the h4 texts of the content block of the heading at position i: the
\* first content block after it that comes before the next heading
OwnSites(elements, i) ==
    LET j == find_next(elements, i)
    IN  IF j # 0 /\ HeadingsUpTo(elements, j) = HeadingsUpTo(elements, i)
        THEN elements[j][2] ELSE <<>>

C27_SitesOfOwnBlockOnly ==
    fcall = "LocationsExtractor.extract_countries" =>
        LET elements == farg[2]
            countries == fret[2]
        IN  /\ Len(countries) = HeadingsUpTo(elements, Len(elements))
            /\ \A i \in 1..Len(elements) :
                  elements[i][1] = "h3" =>
                      Get(countries[HeadingsUpTo(elements, i)], <<"sites">>)
                          = SiteEntries(OwnSites(elements, i))

(***************************************************************************)
(* Claims on the record handed to the persist step                         *)
(***************************************************************************)
\* the caller's trial_data object as it stands: _update_trial_data writes
\* the keys "metadata.updated_at" and "metadata.source_file" into it
TrialDataNow(c) ==
    IF tdata[c].dotted
    THEN [ b \in DOMAIN tdata[c].rec
                 \cup {"metadata.updated_at", "metadata.source_file"} |->
             IF b \in DOMAIN tdata[c].rec THEN tdata[c].rec[b]
             ELSE IF b = "metadata.source_file" THEN tdata[c].src
             ELSE "now" ]
    ELSE tdata[c].rec

\* C22 (as stated): no stage mutates the record it is given: when
\* save_trial_data has returned, by its insert path or by its
\* update-on-collision path, the record passed in is unchanged.
C22_RecordNotMutated ==
    \A c \in Clients : spc[c] = "done" => TrialDataNow(c) = tdata[c].rec

(***************************************************************************)
(* Claims on the whole pipeline                                            *)
(***************************************************************************)
\* the issue of validate_required_sections for the field header.euct_number
EuctMissingIssue == <<"missing_field", <<k_header>>, k_euct_number>>

\* C25 (as stated): for every document in which the trial identifier is
\* absent, neither the header block nor the Trial-Details fallback yielding
\* it, the report has an issue for the required field header.euct_number
\* and is not valid.
C25_MissingIdentifierIsReported ==
    (fcall = "process_file"
     /\ Unresolved(farg, k_euct_number, {k_eu_trial_number})) =>
        /\ Returned_Report(fret)
        /\ fret[2] = FALSE
        /\ \E i \in 1..Len(fret[3]) : fret[3][i] = EuctMissingIssue

\* ---------------------------------------------------------------------------
\* C26  During a batch of NDocs documents processed by the worker pool, the
\* progress counter counts every finished document exactly once across all
\* workers, a progress line is logged each time the completed share has
\* advanced by at least 5% of the total since the last line, and a line is
\* logged when all the documents are done.
\* ---------------------------------------------------------------------------
Finished == { d \in Docs : pc[d] = "collected" }

Logged(line) == \E i \in 1..Len(progress_log) : progress_log[i] = line

C26_ProgressCountsEveryDocument ==
    batch = "done" =>
        /\ progress.current = Cardinality(Finished)
        /\ \A n \in 1..Cardinality(Finished) :
               (100 \div NDocs >= log_interval) =>
                   Logged(<<"update", n, NDocs, (n * 100) \div NDocs>>)
        /\ Finished = Docs =>
               \/ Logged(<<"update", NDocs, NDocs, 100>>)
               \/ \E count \in 0..NDocs : Logged(<<"complete", count, NDocs>>)

\* ---------------------------------------------------------------------------
\* C28  For every call of bulk_insert_trials on a connected store with a
\* list of M records, the returned counts satisfy success + duplicates +
\* failed = M (each record is counted in exactly one of the three), and a
\* step that counts a record as a duplicate leaves the collection, and with
\* it the document already stored for the key, unchanged.
\* ---------------------------------------------------------------------------
BulkReturned(c) ==
    spc[c] = "done" /\ bulk[c].results # <<>> /\ bulk[c].is_connected

CountsAddUp(c) ==
    bulk[c].results.success + bulk[c].results.duplicates
        + bulk[c].results.failed = Len(bulk[c].trials_data)

CountedDuplicate(c) ==
    WithCode(bulk'[c].writeErrors, DUPLICATE_KEY, TRUE)
        > WithCode(bulk[c].writeErrors, DUPLICATE_KEY, TRUE)

C28_BulkCountsAddUp ==
    /\ [](\A c \in Clients : BulkReturned(c) => CountsAddUp(c))
    /\ [][\A c \in Clients : CountedDuplicate(c) => coll' = coll]_vars

C28_Witness ==
    /\ BulkReturned(BulkWriter)
    /\ bulk[BulkWriter].results.success = 1
    /\ bulk[BulkWriter].results.duplicates = 1
    /\ Len(coll) = 2

(***************************************************************************)
(* Claims on normalize_number                                              *)
(***************************************************************************)
\* neither int(value) nor float(value.replace(',', '.')) succeeds
NotANumber(t) == ~ IsInt(Strip(t)) /\ ~ IsFloat(ReplaceComma(Strip(t)))

\* C24 (as stated): for every cleaned string that cannot be coerced to a
\* number, normalize_number returns the string unchanged.
C24_FailedCoercionKeepsText ==
    (fcall = "normalize_number" /\ Strip(farg) = farg /\ NotANumber(farg))
        => fret = Str(farg)

\* ---------------------------------------------------------------------------
\* C30  When a run is started with persistence enabled on the command line
\* (_configure_mongodb sets the flag), every DataStorage created while a
\* document of that run is processed reads the toggle as enabled, so that
\* with a reachable database the save is attempted: the persist step of a
\* document is never taken with the toggle off.
\* ---------------------------------------------------------------------------
PersistStep(d) == pc[d] = "storage" /\ pc'[d] = "validate"

C30_ToggleReflectsRun ==
    [][\A d \in Docs : (run.enable_mongodb /\ PersistStep(d)) => enable_storage]_vars

(***************************************************************************)
(* Claims on validation within the pipeline                                *)
(***************************************************************************)
\* C23 (as stated): for every record the extract, clean and normalize
\* stages can produce, validation returns a report and never raises.
C23_ValidationNeverRaises ==
    fcall = "validate_data" => Returned_Report(fret)

(***************************************************************************)
(* Claims on the cleaned record                                            *)
(***************************************************************************)
\* null, an empty string, an empty sequence or an empty mapping
IsEmptyValue(v) == IsNone(v) \/ ((IsStr(v) \/ IsList(v) \/ IsDict(v)) /\ v[2] = <<>>)

\* some mapping of the value, at any depth, has a key whose value is empty
RECURSIVE HasEmptyEntry(_)
HasEmptyEntry(v) ==
    IF IsDict(v)
    THEN \E i \in 1..Len(v[2]) :
            IsEmptyValue(v[2][i][2]) \/ HasEmptyEntry(v[2][i][2])
    ELSE IF IsList(v) THEN \E j \in 1..Len(v[2]) : HasEmptyEntry(v[2][j])
    ELSE FALSE

\* some leaf of the value, at any depth, is null
RECURSIVE HasNullLeaf(_)
HasNullLeaf(v) ==
    IF IsDict(v) THEN \E i \in 1..Len(v[2]) : HasNullLeaf(v[2][i][2])
    ELSE IF IsList(v) THEN \E j \in 1..Len(v[2]) : HasNullLeaf(v[2][j])
    ELSE IsNone(v)

\* C21 (as stated): the output of clean_and_standardize has no mapping key,
\* at any depth including mappings nested inside sequences, whose value is
\* null, an empty string, an empty sequence or an empty mapping, and no null
\* leaf of the input is left in it.
C21_NoEmptyValueLeft ==
    Len(cout) >= 1 => ~ HasEmptyEntry(cout[1]) /\ ~ HasNullLeaf(cout[1])

====
